---------------------------- MODULE Spec2Model ----------------------------
(***************************************************************************)
(* State-machine model of the SUPPER back-office scripts:                  *)
(*   - the day-of-month picker (calendrier_widget.js, three copies),       *)
(*   - the role -> permission auto-fill (three copies),                    *)
(*   - the date input validation and day-status check                      *)
(*     (calendrier-widget.js),                                             *)
(*   - the AJAX and the static region -> department selects,               *)
(*   - the write actions, the toasts, the form autosave and the loss rate. *)
(* Each component has its own variables and its own specification; the     *)
(* variables of the other components stay at their initial value.          *)
(***************************************************************************)
EXTENDS Integers, Sequences, FiniteSets, TLC

VARIABLES
    \* ---- day-of-month picker ----
    widget,         \* which copy of the script the page loads
    currentMonth,   \* closure variable currentMonth (NaN possible)
    currentYear,    \* closure variable currentYear
    selectedDays,   \* closure variable selectedDays, when it is an array
    selectedKind,   \* "array", or what JSON.parse returned instead of one
    hiddenValue,    \* hiddenInput.value / textarea.value, as JSON text
    dpThrown,       \* an exception escaped the last handler (or the init)
    grid,           \* what the calendar container shows
    countShown,     \* the number in the count element
    dpHist          \* the last call: its name, whether it wrote the hidden
                    \* field, and for toggles the day and the arrays held before

VARIABLES
    \* ---- form autosave ----
    formId,         \* form.id of the form that has data-autosave
    fieldValues,    \* the value of each field of the form
    storage,        \* the item 'supper_form_<id>' in localStorage
    saveTimeout,    \* the one-second timer of the 'input' listeners is armed
    svLast          \* the last step, and whether saveFormData has written

VARIABLES
    \* ---- loss rate ----
    recetteDeclare,     \* the amount declared, argument of the last call
    recettePotentielle, \* the potential revenue of the post
    deperdition         \* what calculateDeperditionRate returned last

dpVars == <<widget, currentMonth, currentYear, selectedDays, selectedKind,
            hiddenValue, dpThrown, grid, countShown, dpHist>>

VARIABLES
    \* ---- role -> permission auto-fill ----
    script,         \* which copy of the permission script the page loads
    dom,            \* per permission of the page: how its checkbox can be found
    checked,        \* the permissions of the page whose checkbox is checked
    habilitation,   \* value of select#id_habilitation
    creation,       \* the page is the user-creation form
    indicator,      \* the numbers #permissions-count shows: <<checked, total>>
    pmLast          \* the last handler: its name, the role it got, the answer
                    \* to its confirm() dialog, whether it called
                    \* console.warn, whether it threw a TypeError

pmVars == <<script, dom, checked, habilitation, creation, indicator, pmLast>>

VARIABLES
    \* ---- date input: validation and day-status check ----
    nowLocal,       \* the local date of the clock of the browser
    dayAhead,       \* days the local date is ahead of the UTC date
    inForm,         \* the input is inside a form
    value,          \* input.value
    validity,       \* "is-valid", "is-invalid" or "none": the class it has
    dateError,      \* the inline message .date-error-message, or "none"
    errorAge,       \* sweeps since the message was stamped, -1 without a stamp
    dirty,          \* the user has edited the value, 'change' is due
    loadTimer,      \* the 500 ms timer set at page load has not fired yet
    pending,        \* the check-day-status requests in flight
    issued,         \* how many requests have been issued
    banner,         \* the banner .status-jour-display next to the input
    bannerCount,    \* how many .status-jour-display elements the parent holds
    posteTimers,    \* 100 ms timers armed by the listener of the poste select
    listeners,      \* how many times initCalendrierWidgets has bound the input
    unhandled,      \* an exception or a rejection was left unhandled
    dtLast          \* the last step: its name, its date, whether it issued
                    \* a request, whether the request it settled had failed

dtVars == <<nowLocal, dayAhead, inForm, value, validity, dateError, errorAge, dirty,
            loadTimer, pending, issued, banner, bannerCount, unhandled,
            posteTimers, listeners, dtLast>>

VARIABLES
    \* ---- region -> department select, AJAX variant ----
    region,         \* value of select#id_region (0: no region)
    deptOptions,    \* the options of select#id_departement after the placeholder
    deptDisabled,   \* departementSelect.disabled
    rgPending,      \* the requests for departments in flight
    rgIssued,       \* how many requests have been issued
    rgFailed,       \* some request has ended in the .catch
    rgSelected      \* the user has changed the region at least once

rgVars == <<region, deptOptions, deptDisabled, rgPending, rgIssued, rgFailed,
            rgSelected>>

VARIABLES
    \* ---- region -> department select, static variants ----
    variant,        \* which static script the page loads
    stRegion,       \* value of the region select
    stOptions,      \* the option values of the department select, in order
    stDisabled,     \* departementSelect.disabled
    stLast          \* "load", "change" once the region has been changed,
                    \* "call", "throw" (a call that threw), "construct"

stVars == <<variant, stRegion, stOptions, stDisabled, stLast>>

VARIABLES
    \* ---- write actions (dynamic_titles.js, supper.js) ----
    scripts,        \* which of dynamic_titles.js and supper.js the page
                    \* loads, in the order of their script tags
    csrf,           \* where the page carries the CSRF token
    notifUI,        \* the page holds #notificationsBadge and
                    \* #notificationsContainer
    notifItem,      \* the page holds the item of the notification
    calls,          \* the invocations of the handlers, in order
    reloaded,       \* location.reload() has been called
    loads,          \* GET requests of loadNotifications in flight
    lastCheck       \* SUPPER.cache.lastNotificationCheck is set

waVars == <<scripts, csrf, notifUI, notifItem, calls, reloaded, loads, lastCheck>>

VARIABLES
    \* ---- toasts (dynamic_titles.js) ----
    toasts          \* the toasts showNotification has created, in order

tnVars == <<toasts>>

VARIABLES
    \* ---- two day pickers on one page ----
    twOwner,        \* the widget whose closure the window functions belong to
    twMonth,        \* select[name="mois"], read by both widgets
    twYear,         \* input[name="annee"], read by both widgets
    twDays,         \* selectedDays of each widget
    twHidden,       \* the hidden field of each widget
    twLast          \* the last call or listener: its name, the id and the
                    \* day passed

twVars == <<twOwner, twMonth, twYear, twDays, twHidden, twLast>>

svVars == <<formId, fieldValues, storage, saveTimeout, svLast>>

drVars == <<recetteDeclare, recettePotentielle, deperdition>>

\* A page without the day picker / without the permission form / without
\* a date input / without the region select.
DpIdle ==
    /\ widget = "none" /\ currentMonth = 0 /\ currentYear = 0
    /\ selectedDays = <<>> /\ selectedKind = "array" /\ hiddenValue = <<>>
    /\ dpThrown = FALSE /\ grid = "none" /\ countShown = 0
    /\ dpHist = "none"

PmIdle ==
    /\ script = "none" /\ dom = <<>> /\ checked = {} /\ habilitation = ""
    /\ creation = FALSE /\ indicator = <<0, 0>> /\ pmLast = "none"

DtIdle ==
    /\ nowLocal = <<>> /\ dayAhead = 0 /\ inForm = FALSE /\ value = <<>>
    /\ validity = "none" /\ dateError = "none" /\ errorAge = -1
    /\ dirty = FALSE
    /\ loadTimer = FALSE /\ pending = {} /\ issued = 0 /\ banner = "none"
    /\ bannerCount = -1 /\ posteTimers = -1 /\ listeners = -1
    /\ unhandled = FALSE /\ dtLast = "none"

RgIdle ==
    /\ region = 0 /\ deptOptions = <<>> /\ deptDisabled = FALSE
    /\ rgPending = {} /\ rgIssued = 0 /\ rgFailed = FALSE
    /\ rgSelected = FALSE

StIdle ==
    /\ variant = "none" /\ stRegion = "" /\ stOptions = <<>>
    /\ stDisabled = FALSE /\ stLast = "none"

WaIdle ==
    /\ scripts = <<>> /\ csrf = "none" /\ notifUI = FALSE /\ notifItem = FALSE
    /\ calls = <<>> /\ reloaded = FALSE
    /\ loads = -1 /\ lastCheck = FALSE

TnIdle ==
    /\ toasts = <<>>

TwIdle ==
    /\ twOwner = "" /\ twMonth = 0 /\ twYear = 0
    /\ twDays = <<>> /\ twHidden = <<>> /\ twLast = "none"

\* A page without a form that has data-autosave
SvIdle ==
    /\ formId = "none" /\ fieldValues = <<>> /\ storage = <<>>
    /\ saveTimeout = FALSE /\ svLast = "none"

\* A page without the revenue form
DrIdle ==
    /\ recetteDeclare = 0 /\ recettePotentielle = "none" /\ deperdition = "none"

\* What a handler of one component leaves alone: the other components.
notDp == <<pmVars, dtVars, rgVars, stVars, waVars, tnVars, twVars,
           svVars, drVars>>
notPm == <<dpVars, dtVars, rgVars, stVars, waVars, tnVars, twVars,
           svVars, drVars>>
notDt == <<dpVars, pmVars, rgVars, stVars, waVars, tnVars, twVars,
           svVars, drVars>>
notRg == <<dpVars, pmVars, dtVars, stVars, waVars, tnVars, twVars,
           svVars, drVars>>
notSt == <<dpVars, pmVars, dtVars, rgVars, waVars, tnVars, twVars,
           svVars, drVars>>
notWa == <<dpVars, pmVars, dtVars, rgVars, stVars, tnVars, twVars,
           svVars, drVars>>
notTn == <<dpVars, pmVars, dtVars, rgVars, stVars, waVars, twVars,
           svVars, drVars>>
notTw == <<dpVars, pmVars, dtVars, rgVars, stVars, waVars, tnVars,
           svVars, drVars>>
notSv == <<dpVars, pmVars, dtVars, rgVars, stVars, waVars, tnVars,
           twVars, drVars>>
notDr == <<dpVars, pmVars, dtVars, rgVars, stVars, waVars, tnVars,
           twVars, svVars>>

vars == <<dpVars, pmVars, dtVars, rgVars, stVars, waVars, tnVars,
          twVars, svVars, drVars>>

---------------------------------------------------------------------------
(* Bounds of the model *)

\* First year offered by the year input.
BaseYear == 2024
\* Number of consecutive years offered by the year input.
NumYears == 2
\* Months 1..NumMonths are offered by the month select (31 and 29/28 days).
NumMonths == 2
\* Days 1..NumClickDays (and day 31) are the grid cells the user clicks.
NumClickDays == 2
\* Days of March the clock of the date input may show
NumTodays == 2
\* Day-status requests issued in one run
MaxRequests == 2
\* A leap year, for the clock of the date input
LeapYear == 2024
\* Regions of the region select, departments per region, requests issued
NumRegions == 2
NumDepartements == 2
MaxFetches == 3

---------------------------------------------------------------------------
(* JavaScript Date arithmetic *)

\* parseInt('') and parseInt of a non-number: NaN
NaN == -1

\* new Date(year, ...): a year of 0..99 stands for the year 1900 + year.
FullYear(y) == IF y \in 0..99 THEN 1900 + y ELSE y

\* February of the year new Date(y, 2, 0) falls in has 29 days.
IsLeap(y) ==
    LET full == FullYear(y)
    IN  (full % 4 = 0 /\ full % 100 # 0) \/ full % 400 = 0

\* new Date(year, month, 0).getDate() for month in 1..12
DaysInMonth(y, m) ==
    IF m = 2 THEN (IF IsLeap(y) THEN 29 ELSE 28)
    ELSE IF m \in {4, 6, 9, 11} THEN 30 ELSE 31

\* Days from 1970-01-01 to new Date(y, m - 1, d) (civil calendar), m in
\* 1..12.
DaysFromCivil(y, m, d) ==
    LET yy  == IF m <= 2 THEN FullYear(y) - 1 ELSE FullYear(y)
        era == yy \div 400
        yoe == yy - era * 400
        mp  == (m + 9) % 12
        doy == (153 * mp + 2) \div 5 + d - 1
        doe == yoe * 365 + yoe \div 4 - yoe \div 100 + doy
    IN  era * 146097 + doe - 719468

\* new Date(year, month - 1, day).getDay(): 0 = Sunday .. 6 = Saturday
GetDay(y, m, d) == (DaysFromCivil(y, m, d) + 4) % 7

\* !x for a number x: true for 0 and NaN
Falsy(x) == x = 0 \/ x = NaN

---------------------------------------------------------------------------
(* JSON text and values.  A JSON text is a sequence of tokens; an array    *)
(* element is a token of kind int (n), frac (the non-integer n + 0.5),     *)
(* str (the string of the digits of n) or null.                            *)

Tok(k, n) == [k |-> k, n |-> n]
Num(n)  == Tok("int", n)
Frac(n) == Tok("frac", n)
Str(n)  == Tok("str", n)
Null    == Tok("null", 0)
LB      == Tok("[", 0)
RB      == Tok("]", 0)
Comma   == Tok(",", 0)
LBrace  == Tok("{", 0)
RBrace  == Tok("}", 0)

IsItem(t) == t.k \in {"int", "frac", "str", "null"}

\* typeof day === 'number'
IsNumber(t) == t.k \in {"int", "frac"}

\* Twice the numeric value of an element (Number(x) * 2), for comparisons.
Twice(t) == IF t.k = "frac" THEN 2 * t.n + 1 ELSE 2 * t.n

IsArrayText(s) ==
    /\ Len(s) >= 2
    /\ s[1] = LB
    /\ s[Len(s)] = RB
    /\ \/ Len(s) = 2
       \/ /\ Len(s) % 2 = 1
          /\ \A i \in 2..(Len(s) - 1) :
                IF i % 2 = 0 THEN IsItem(s[i]) ELSE s[i] = Comma

\* JSON.parse(text): ok = FALSE when it throws SyntaxError.
JSONparse(s) ==
    IF IsArrayText(s)
    THEN [ok |-> TRUE, kind |-> "array",
          arr |-> [i \in 1..((Len(s) - 1) \div 2) |-> s[2 * i]]]
    ELSE IF Len(s) = 1 /\ IsItem(s[1])
    THEN [ok |-> TRUE, kind |-> IF s[1].k = "str" THEN "string" ELSE "other",
          arr |-> <<>>]
    ELSE IF s = <<LBrace, RBrace>>
    THEN [ok |-> TRUE, kind |-> "other", arr |-> <<>>]
    ELSE [ok |-> FALSE, kind |-> "error", arr |-> <<>>]

RECURSIVE JoinItems(_)
JoinItems(a) ==
    IF Len(a) = 0 THEN <<>>
    ELSE IF Len(a) = 1 THEN <<a[1]>>
    ELSE <<a[1], Comma>> \o JoinItems(Tail(a))

\* JSON.stringify(array)
JSONstringify(a) == <<LB>> \o JoinItems(a) \o <<RB>>

---------------------------------------------------------------------------
(* Array helpers *)

SetOf(a) == {a[i] : i \in 1..Len(a)}

\* a.indexOf(x), 1-based; 0 when absent (JavaScript: -1)
IndexOf(a, x) ==
    IF x \in SetOf(a)
    THEN CHOOSE i \in 1..Len(a) : a[i] = x /\ \A j \in 1..(i - 1) : a[j] # x
    ELSE 0

\* a.splice(i, 1)
Splice(a, i) == SubSeq(a, 1, i - 1) \o SubSeq(a, i + 1, Len(a))

\* Insert x into the sorted array a after the elements not greater than it.
RECURSIVE InsertSorted(_, _)
InsertSorted(a, x) ==
    IF Len(a) = 0 THEN <<x>>
    ELSE IF Twice(a[Len(a)]) <= Twice(x) THEN Append(a, x)
    ELSE Append(InsertSorted(SubSeq(a, 1, Len(a) - 1), x), a[Len(a)])

\* a.sort((a, b) => a - b): stable, by numeric value
RECURSIVE SortNumeric(_)
SortNumeric(a) ==
    IF Len(a) = 0 THEN <<>>
    ELSE InsertSorted(SortNumeric(SubSeq(a, 1, Len(a) - 1)), a[Len(a)])

\* [1, 2, ..., n]
RECURSIVE UpTo(_)
UpTo(n) == IF n <= 0 THEN <<>> ELSE Append(UpTo(n - 1), Num(n))

---------------------------------------------------------------------------
(* Day-of-month picker: initCalendrier (two copies) and initCalendrierSimple *)

\* The three copies of the day-picker script.
Widgets == {"orig", "corrige", "simple"}

Months == 1..NumMonths
Years  == BaseYear..(BaseYear + NumYears - 1)
\* A year typed with two digits: parseInt gives 24, and new Date reads it as
\* 1924.
TwoDigitYears == {24}

\* What the server may have rendered into the hidden field.
HiddenInputs ==
    { <<>>,                                        \* ''
      <<LB, RB>>,                                  \* '[]'
      <<LB, Num(1), Comma, Num(31), RB>>,          \* '[1,31]'
      <<LB, Num(2), Comma, Num(1), RB>>,           \* '[2,1]'
      <<LB, Num(2), Comma, Num(2), RB>>,           \* '[2,2]'
      <<LB, Num(1), Comma, Num(32), RB>>,          \* '[1,32]'
      <<LB, Frac(1), RB>>,                         \* '[1.5]'
      <<LB, Str(2), RB>>,                          \* '["2"]'
      <<LB, Null, RB>>,                            \* '[null]'
      <<Num(7)>>,                                  \* '7'
      <<Str(7)>>,                                  \* '"7"'
      <<Null>>,                                    \* 'null'
      <<LBrace, RBrace>>,                          \* '{}'
      <<LB, Num(1), Comma>> }                      \* '[1,'

\* Days passed to toggleDay / toggleDaySimple: grid cells, and values
\* outside 1..31 passed by a direct call.
ToggleInputs == (1..NumClickDays) \cup {31} \cup {0, 32}

\* day >= 1 && day <= 31 on a number
InRange(t) == IsNumber(t) /\ Twice(t) >= 2 /\ Twice(t) <= 62

\* selectedDays.filter(...).sort(...) of updateHiddenInput / updateTextarea
Cleaned(a) == SortNumeric(SelectSeq(a, InRange))

\* The array updateHiddenInput leaves in selectedDays.
UpdatedDays(w, a) == IF w = "orig" THEN a ELSE Cleaned(a)

\* The text updateHiddenInput writes to the hidden field.
UpdateHiddenInput(w, a) == JSONstringify(UpdatedDays(w, a))

\* selectedDays after the indexOf / splice / push of toggleDay
Toggled(a, day) ==
    IF IndexOf(a, Num(day)) > 0
    THEN Splice(a, IndexOf(a, Num(day)))
    ELSE Append(a, Num(day))

\* toggleDay of the first copy sorts before it serialises.
ToggledDays(w, a, day) ==
    IF w = "orig" THEN SortNumeric(Toggled(a, day)) ELSE Toggled(a, day)

\* The guard of toggleDay: only the corrected copy checks the range.
ToggleAccepts(w, day) == w # "corrige" \/ (day >= 1 /\ day <= 31)

\* A loop that runs to 31 whatever the month.
AllDaysThirtyOne(y, m) == UpTo(31)

\* The for loop of selectAllDays; no iteration when daysInMonth is NaN.
AllDays(y, m) ==
    IF y = NaN \/ m = NaN THEN <<>> ELSE UpTo(DaysInMonth(y, m))

IsWeekday(y, m, d) == GetDay(y, m, d) >= 1 /\ GetDay(y, m, d) <= 5

\* A loop that keeps Monday to Saturday.
WeekdaysThroughSaturday(y, m) ==
    IF y = NaN \/ m = NaN THEN <<>>
    ELSE SelectSeq(UpTo(DaysInMonth(y, m)),
                   LAMBDA t : GetDay(y, m, t.n) >= 1 /\ GetDay(y, m, t.n) <= 6)

\* The for loop of selectWeekdays.
Weekdays(y, m) ==
    IF y = NaN \/ m = NaN THEN <<>>
    ELSE SelectSeq(UpTo(DaysInMonth(y, m)), LAMBDA t : IsWeekday(y, m, t.n))

\* if (!currentMonth || !currentYear) return;  (absent from the first copy)
BulkGuard(w, y, m) == w = "orig" \/ ~(Falsy(m) \/ Falsy(y))

\* generateCalendar throws when selectedDays has no includes() and the grid
\* is drawn; only the first copy can hold such a value and has no try/catch.
GenerateThrows(kind, y, m) == kind = "other" /\ ~(Falsy(m) \/ Falsy(y))

\* The container as the server renders it, the message generateCalendar
\* shows without a month or a year, and the grid of a month with the cells
\* that carry the class 'selected'.
EmptyContainer == [drawn |-> "nothing", year |-> 0, month |-> 0, selected |-> {}]
MessageShown   == [drawn |-> "message", year |-> 0, month |-> 0, selected |-> {}]
GridOf(y, m, cells) == [drawn |-> "grid", year |-> y, month |-> m, selected |-> cells]

\* selectedDays.includes(day): an array holds the number; a string (first
\* copy only, the text of the number n) holds the decimal text of the day.
Includes(kind, days, text, d) ==
    IF kind = "string"
    THEN LET n == text[1].n IN
         d = n \/ (n >= 10 /\ d < 10 /\ (d = n \div 10 \/ d = n % 10))
    ELSE IndexOf(days, Num(d)) > 0

\* generateCalendar(): what the container shows after the call, old being
\* what it showed before (kept when the call throws before innerHTML is set).
GenerateCalendar(kind, days, text, y, m, old) ==
    IF Falsy(m) \/ Falsy(y) THEN MessageShown
    ELSE IF kind = "other" THEN old
    ELSE GridOf(y, m, {d \in 1..DaysInMonth(y, m) : Includes(kind, days, text, d)})

\* updateCount(): countElement.textContent = selectedDays.length, the length
\* of the array or, in the first copy, of the string (the text of a number
\* below 100).
UpdateCount(kind, days, text) ==
    IF kind = "string" THEN (IF text[1].n >= 10 THEN 2 ELSE 1) ELSE Len(days)

\* The count element after generateCalendar(): updateCount() is its last
\* statement, not reached from the branch of the message nor when it throws.
CountAfterDraw(kind, days, text, y, m, old) ==
    IF Falsy(m) \/ Falsy(y) \/ kind = "other" THEN old
    ELSE UpdateCount(kind, days, text)

\* Listeners that never redraw.
ListenerNeverDraws(w, accepted, y, m) == FALSE

\* The listeners of the month select and the year input call
\* generateCalendar: the first copy with a month and a year only, the
\* corrected copy when it has accepted the parsed value, the simple copy
\* always.
ListenerDraws(w, accepted, y, m) ==
    CASE w = "orig"    -> ~(Falsy(m) \/ Falsy(y))
      [] w = "corrige" -> accepted
      [] w = "simple"  -> TRUE

\* The record of a call that is not a toggle.
Call(op, wrote) == [op |-> op, wrote |-> wrote, day |-> 0, befores |-> <<>>]

\* What the textarea of the simple copy may hold when the page loads; the
\* copy never reads it.
TextareaInputs == {<<>>, <<LB, Num(1), Comma, Num(31), RB>>}

\* The second argument of initCalendrierSimple: an array of values, or
\* something that is not an array (nothing, null, a string).
InitialDays(isArray, arr) == [isArray |-> isArray, arr |-> arr]

InitialDaysInputs ==
    { InitialDays(FALSE, <<>>),
      InitialDays(TRUE, <<>>),
      InitialDays(TRUE, <<Num(1), Num(31)>>),
      InitialDays(TRUE, <<Num(2), Num(1)>>),
      InitialDays(TRUE, <<Num(2), Num(2)>>),
      InitialDays(TRUE, <<Num(1), Num(32)>>),
      InitialDays(TRUE, <<Frac(1)>>),
      InitialDays(TRUE, <<Str(2)>>),
      InitialDays(TRUE, <<Null>>) }

\* let selectedDays = Array.isArray(initialDays) ? initialDays : [];
InitialSelectedDays(initialDays) ==
    IF initialDays.isArray THEN initialDays.arr ELSE <<>>

\* loadSelectedDays / the try block that reads hiddenInput.value, in the two
\* copies of initCalendrier
LoadSelectedDays(w, text) ==
    LET p == JSONparse(text) IN
    IF text = <<>> \/ ~p.ok THEN [kind |-> "array", arr |-> <<>>]
    ELSE IF p.kind = "array" THEN [kind |-> "array", arr |-> p.arr]
    ELSE IF w = "orig" THEN [kind |-> p.kind, arr |-> <<>>]
    ELSE [kind |-> "array", arr |-> <<>>]

\* The selection a copy starts with: the two copies of initCalendrier parse
\* the text of the hidden field, initCalendrierSimple takes its argument and
\* leaves the textarea unread.
StartDays(w, text, initialDays) ==
    IF w = "simple"
    THEN [kind |-> "array", arr |-> InitialSelectedDays(initialDays)]
    ELSE LoadSelectedDays(w, text)

\* initCalendrier(widgetId) / initCalendrierSimple(widgetId, initialDays)
DpInit ==
    /\ widget \in Widgets
    /\ currentMonth \in Months
    /\ currentYear \in Years
    /\ hiddenValue \in IF widget = "simple" THEN TextareaInputs ELSE HiddenInputs
    /\ \E initialDays \in InitialDaysInputs :
       LET l == StartDays(widget, hiddenValue, initialDays) IN
         /\ selectedDays = l.arr
         /\ selectedKind = l.kind
         /\ dpThrown = GenerateThrows(l.kind, currentYear, currentMonth)
         /\ grid = GenerateCalendar(l.kind, l.arr, hiddenValue, currentYear,
                                    currentMonth, EmptyContainer)
         /\ countShown = CountAfterDraw(l.kind, l.arr, hiddenValue, currentYear,
                                        currentMonth, 0)
    /\ dpHist = Call("init", FALSE)
    /\ PmIdle
    /\ DtIdle
    /\ RgIdle
    /\ StIdle
    /\ WaIdle
    /\ TnIdle
    /\ TwIdle
    /\ SvIdle
    /\ DrIdle

\* window.toggleDay(day, widgetId) / window.toggleDaySimple(day, widgetId)
ToggleDay(day) ==
    /\ dpHist' = [op |-> "toggleDay",
                  wrote |-> selectedKind = "array" /\ ToggleAccepts(widget, day),
                  day |-> day,
                  befores |-> IF dpHist.day = day /\ dpHist.befores # <<>>
                              THEN <<dpHist.befores[Len(dpHist.befores)],
                                     selectedDays>>
                              ELSE <<selectedDays>>]
    /\ IF selectedKind # "array"
       THEN \* TypeError on indexOf / push, not caught
            /\ dpThrown' = TRUE
            /\ UNCHANGED <<selectedDays, selectedKind, hiddenValue, grid, countShown>>
       ELSE IF ~ToggleAccepts(widget, day)
       THEN /\ dpThrown' = FALSE
            /\ UNCHANGED <<selectedDays, selectedKind, hiddenValue, grid, countShown>>
       ELSE /\ selectedDays' =
                 UpdatedDays(widget, ToggledDays(widget, selectedDays, day))
            /\ hiddenValue' =
                 UpdateHiddenInput(widget, ToggledDays(widget, selectedDays, day))
            /\ grid' = GenerateCalendar("array", selectedDays', hiddenValue',
                                        currentYear, currentMonth, grid)
            /\ countShown' = Len(selectedDays')
            /\ dpThrown' = FALSE
            /\ UNCHANGED selectedKind
    /\ UNCHANGED <<widget, currentMonth, currentYear>>
    /\ UNCHANGED notDp

\* window.selectAllDays(widgetId)
SelectAllDays ==
    /\ dpHist' = Call("selectAllDays", BulkGuard(widget, currentYear, currentMonth))
    /\ dpThrown' = FALSE
    /\ IF BulkGuard(widget, currentYear, currentMonth)
       THEN /\ selectedDays' = UpdatedDays(widget, AllDays(currentYear, currentMonth))
            /\ hiddenValue' = UpdateHiddenInput(widget, AllDays(currentYear, currentMonth))
            /\ selectedKind' = "array"
            /\ grid' = GenerateCalendar("array", selectedDays', hiddenValue',
                                        currentYear, currentMonth, grid)
            /\ countShown' = Len(selectedDays')
       ELSE UNCHANGED <<selectedDays, selectedKind, hiddenValue, grid, countShown>>
    /\ UNCHANGED <<widget, currentMonth, currentYear>>
    /\ UNCHANGED notDp

\* window.clearAllDays(widgetId)
ClearAllDays ==
    /\ dpHist' = Call("clearAllDays", TRUE)
    /\ dpThrown' = FALSE
    /\ selectedDays' = UpdatedDays(widget, <<>>)
    /\ hiddenValue' = UpdateHiddenInput(widget, <<>>)
    /\ selectedKind' = "array"
    /\ grid' = GenerateCalendar("array", selectedDays', hiddenValue',
                                currentYear, currentMonth, grid)
    /\ countShown' = Len(selectedDays')
    /\ UNCHANGED <<widget, currentMonth, currentYear>>
    /\ UNCHANGED notDp

\* window.selectWeekdays(widgetId)
SelectWeekdays ==
    /\ dpHist' = Call("selectWeekdays", BulkGuard(widget, currentYear, currentMonth))
    /\ dpThrown' = FALSE
    /\ IF BulkGuard(widget, currentYear, currentMonth)
       THEN /\ selectedDays' = UpdatedDays(widget, Weekdays(currentYear, currentMonth))
            /\ hiddenValue' = UpdateHiddenInput(widget, Weekdays(currentYear, currentMonth))
            /\ selectedKind' = "array"
            /\ grid' = GenerateCalendar("array", selectedDays', hiddenValue',
                                        currentYear, currentMonth, grid)
            /\ countShown' = Len(selectedDays')
       ELSE UNCHANGED <<selectedDays, selectedKind, hiddenValue, grid, countShown>>
    /\ UNCHANGED <<widget, currentMonth, currentYear>>
    /\ UNCHANGED notDp

\* The value the month listener keeps: the corrected copy ignores NaN.
NewMonth(w, old, parsed) == IF w = "corrige" /\ Falsy(parsed) THEN old ELSE parsed

\* 'change' listener of select[name="mois"]; parsed = parseInt(this.value)
MoisChange(parsed) ==
    /\ currentMonth' = NewMonth(widget, currentMonth, parsed)
    /\ dpThrown' = GenerateThrows(selectedKind, currentYear, currentMonth')
    /\ grid' = IF ListenerDraws(widget, ~Falsy(parsed), currentYear, currentMonth')
               THEN GenerateCalendar(selectedKind, selectedDays, hiddenValue,
                                     currentYear, currentMonth', grid)
               ELSE grid
    /\ countShown' = IF ListenerDraws(widget, ~Falsy(parsed), currentYear, currentMonth')
                     THEN CountAfterDraw(selectedKind, selectedDays, hiddenValue,
                                         currentYear, currentMonth', countShown)
                     ELSE countShown
    /\ dpHist' = Call("mois", FALSE)
    /\ UNCHANGED <<widget, currentYear, selectedDays, selectedKind, hiddenValue>>
    /\ UNCHANGED notDp

\* The value the year listener keeps: the corrected copy wants 1900 < y < 3000.
NewYear(w, old, parsed) ==
    IF w = "corrige" /\ (Falsy(parsed) \/ parsed <= 1900 \/ parsed >= 3000)
    THEN old ELSE parsed

\* 'change' listener of input[name="annee"]; parsed = parseInt(this.value)
AnneeChange(parsed) ==
    /\ currentYear' = NewYear(widget, currentYear, parsed)
    /\ dpThrown' = GenerateThrows(selectedKind, currentYear', currentMonth)
    /\ grid' = IF ListenerDraws(widget,
                                ~(Falsy(parsed) \/ parsed <= 1900 \/ parsed >= 3000),
                                currentYear', currentMonth)
               THEN GenerateCalendar(selectedKind, selectedDays, hiddenValue,
                                     currentYear', currentMonth, grid)
               ELSE grid
    /\ countShown' = IF ListenerDraws(widget,
                                      ~(Falsy(parsed) \/ parsed <= 1900 \/ parsed >= 3000),
                                      currentYear', currentMonth)
                     THEN CountAfterDraw(selectedKind, selectedDays, hiddenValue,
                                         currentYear', currentMonth, countShown)
                     ELSE countShown
    /\ dpHist' = Call("annee", FALSE)
    /\ UNCHANGED <<widget, currentMonth, selectedDays, selectedKind, hiddenValue>>
    /\ UNCHANGED notDp

DpNext ==
    \/ \E day \in ToggleInputs : ToggleDay(day)
    \/ SelectAllDays
    \/ ClearAllDays
    \/ SelectWeekdays
    \/ \E m \in Months \cup {NaN} : MoisChange(m)
    \/ \E y \in Years \cup TwoDigitYears \cup {NaN} : AnneeChange(y)

\* onclick of a cell of the grid generateCalendar has drawn
GridClick ==
    /\ grid.drawn = "grid"
    /\ \E day \in ToggleInputs :
          /\ day \in 1..DaysInMonth(grid.year, grid.month)
          /\ ToggleDay(day)

\* The corrected copy, driven through its grid and buttons only.
DpInitCorrige == DpInit /\ widget = "corrige"

DpNextCorrige ==
    \/ GridClick
    \/ SelectAllDays
    \/ ClearAllDays
    \/ SelectWeekdays
    \/ \E m \in Months \cup {NaN} : MoisChange(m)
    \/ \E y \in Years \cup TwoDigitYears \cup {NaN} : AnneeChange(y)

\* The day picker alone, the three copies, direct calls included.
SpecDays == DpInit /\ [][DpNext]_vars

\* The corrected day picker, used through its page only.
SpecCorrige == DpInitCorrige /\ [][DpNextCorrige]_vars

---------------------------------------------------------------------------
(* Claims about the day picker *)

\* A strictly ascending, duplicate-free array of integers within 1..31.
StrictlyAscendingDays(a) ==
    /\ \A i \in 1..Len(a) : a[i].k = "int" /\ a[i].n >= 1 /\ a[i].n <= 31
    /\ \A i \in 1..(Len(a) - 1) : a[i].n < a[i + 1].n

\* C1: after any day-picker operation that wrote the hidden field, starting
\* from any array loaded from it, the value of the field parses to a
\* strictly ascending, duplicate-free array of integers within 1..31.
C1_HiddenFieldSortedUnique ==
    dpHist.wrote =>
        /\ JSONparse(hiddenValue).ok
        /\ JSONparse(hiddenValue).kind = "array"
        /\ StrictlyAscendingDays(JSONparse(hiddenValue).arr)

\* The selected set of the data model: the days of 1..31 the array holds.
SelectedSet(a) ==
    {a[i].n : i \in {j \in 1..Len(a) : a[j].k = "int" /\ a[j].n \in 1..31}}

\* C2: for every day d in 1..31 and every state of the widget, two successive
\* calls toggleDay(d) leave the selected set equal to the set held before
\* the two calls.
C2_ToggleTwiceIsIdentity ==
    (/\ dpHist.op = "toggleDay"
     /\ dpHist.day \in 1..31
     /\ Len(dpHist.befores) = 2
     /\ selectedKind = "array")
    => SelectedSet(selectedDays) = SelectedSet(dpHist.befores[1])

---------------------------------------------------------------------------
(* Role -> permission auto-fill: the three copies of the script *)

\* part_000: the role table and the full list of the "Permissions Manager".
PERMISSIONS_PAR_HABILITATION_manager ==
    [
     admin_principal |->
       <<"peut_saisir_inventaire_normal", "peut_saisir_inventaire_admin",
         "peut_programmer_inventaire", "peut_voir_programmation_active",
         "peut_desactiver_programmation",
         "peut_voir_programmation_desactivee",
         "peut_voir_liste_inventaires", "peut_voir_liste_inventaires_admin",
         "peut_voir_jours_impertinents", "peut_voir_stats_deperdition",
         "peut_saisir_recette_peage", "peut_voir_liste_recettes_peage",
         "peut_voir_stats_recettes_peage", "peut_importer_recettes_peage",
         "peut_voir_evolution_peage", "peut_voir_objectifs_peage",
         "peut_saisir_quittance_peage", "peut_voir_liste_quittances_peage",
         "peut_comptabiliser_quittances_peage",
         "peut_voir_historique_vehicule_pesage", "peut_saisir_amende",
         "peut_saisir_pesee_jour", "peut_voir_objectifs_pesage",
         "peut_valider_paiement_amende", "peut_lister_amendes",
         "peut_saisir_quittance_pesage",
         "peut_comptabiliser_quittances_pesage",
         "peut_voir_liste_quittancements_pesage",
         "peut_voir_historique_pesees", "peut_voir_recettes_pesage",
         "peut_voir_stats_pesage", "peut_charger_stock_peage",
         "peut_voir_liste_stocks_peage", "peut_voir_stock_date_peage",
         "peut_transferer_stock_peage", "peut_voir_tracabilite_tickets",
         "peut_voir_bordereaux_peage", "peut_voir_mon_stock_peage",
         "peut_voir_historique_stock_peage", "peut_simuler_commandes_peage",
         "peut_gerer_postes", "peut_ajouter_poste",
         "peut_creer_poste_masse", "peut_gerer_utilisateurs",
         "peut_creer_utilisateur", "peut_voir_journal_audit",
         "peut_voir_rapports_defaillants_peage",
         "peut_voir_rapports_defaillants_pesage",
         "peut_voir_rapport_inventaires",
         "peut_voir_classement_peage_rendement",
         "peut_voir_classement_station_pesage",
         "peut_voir_classement_peage_deperdition",
         "peut_voir_classement_agents_inventaire",
         "peut_parametrage_global", "peut_voir_compte_emploi",
         "peut_voir_pv_confrontation", "peut_authentifier_document",
         "peut_voir_tous_postes">>,
     coord_psrr |->
       <<"peut_saisir_inventaire_normal", "peut_saisir_inventaire_admin",
         "peut_programmer_inventaire", "peut_voir_programmation_active",
         "peut_desactiver_programmation",
         "peut_voir_programmation_desactivee",
         "peut_voir_liste_inventaires", "peut_voir_liste_inventaires_admin",
         "peut_voir_jours_impertinents", "peut_voir_stats_deperdition",
         "peut_saisir_recette_peage", "peut_voir_liste_recettes_peage",
         "peut_voir_stats_recettes_peage", "peut_importer_recettes_peage",
         "peut_voir_evolution_peage", "peut_voir_objectifs_peage",
         "peut_saisir_quittance_peage", "peut_voir_liste_quittances_peage",
         "peut_comptabiliser_quittances_peage",
         "peut_voir_historique_vehicule_pesage", "peut_saisir_amende",
         "peut_saisir_pesee_jour", "peut_voir_objectifs_pesage",
         "peut_valider_paiement_amende", "peut_lister_amendes",
         "peut_saisir_quittance_pesage",
         "peut_comptabiliser_quittances_pesage",
         "peut_voir_liste_quittancements_pesage",
         "peut_voir_historique_pesees", "peut_voir_recettes_pesage",
         "peut_voir_stats_pesage", "peut_charger_stock_peage",
         "peut_voir_liste_stocks_peage", "peut_voir_stock_date_peage",
         "peut_transferer_stock_peage", "peut_voir_tracabilite_tickets",
         "peut_voir_bordereaux_peage", "peut_voir_mon_stock_peage",
         "peut_voir_historique_stock_peage", "peut_simuler_commandes_peage",
         "peut_gerer_postes", "peut_ajouter_poste",
         "peut_creer_poste_masse", "peut_gerer_utilisateurs",
         "peut_creer_utilisateur", "peut_voir_journal_audit",
         "peut_voir_rapports_defaillants_peage",
         "peut_voir_rapports_defaillants_pesage",
         "peut_voir_rapport_inventaires",
         "peut_voir_classement_peage_rendement",
         "peut_voir_classement_station_pesage",
         "peut_voir_classement_peage_deperdition",
         "peut_voir_classement_agents_inventaire",
         "peut_parametrage_global", "peut_voir_compte_emploi",
         "peut_voir_pv_confrontation", "peut_authentifier_document",
         "peut_voir_tous_postes">>,
     serv_info |->
       <<"peut_saisir_inventaire_normal", "peut_saisir_inventaire_admin",
         "peut_programmer_inventaire", "peut_voir_programmation_active",
         "peut_desactiver_programmation",
         "peut_voir_programmation_desactivee",
         "peut_voir_liste_inventaires", "peut_voir_liste_inventaires_admin",
         "peut_voir_jours_impertinents", "peut_voir_stats_deperdition",
         "peut_saisir_recette_peage", "peut_voir_liste_recettes_peage",
         "peut_voir_stats_recettes_peage", "peut_importer_recettes_peage",
         "peut_voir_evolution_peage", "peut_voir_objectifs_peage",
         "peut_saisir_quittance_peage", "peut_voir_liste_quittances_peage",
         "peut_comptabiliser_quittances_peage",
         "peut_voir_historique_vehicule_pesage", "peut_saisir_amende",
         "peut_saisir_pesee_jour", "peut_voir_objectifs_pesage",
         "peut_valider_paiement_amende", "peut_lister_amendes",
         "peut_saisir_quittance_pesage",
         "peut_comptabiliser_quittances_pesage",
         "peut_voir_liste_quittancements_pesage",
         "peut_voir_historique_pesees", "peut_voir_recettes_pesage",
         "peut_voir_stats_pesage", "peut_charger_stock_peage",
         "peut_voir_liste_stocks_peage", "peut_voir_stock_date_peage",
         "peut_transferer_stock_peage", "peut_voir_tracabilite_tickets",
         "peut_voir_bordereaux_peage", "peut_voir_mon_stock_peage",
         "peut_voir_historique_stock_peage", "peut_simuler_commandes_peage",
         "peut_gerer_postes", "peut_ajouter_poste",
         "peut_creer_poste_masse", "peut_gerer_utilisateurs",
         "peut_creer_utilisateur", "peut_voir_journal_audit",
         "peut_voir_rapports_defaillants_peage",
         "peut_voir_rapports_defaillants_pesage",
         "peut_voir_rapport_inventaires",
         "peut_voir_classement_peage_rendement",
         "peut_voir_classement_station_pesage",
         "peut_voir_classement_peage_deperdition",
         "peut_voir_classement_agents_inventaire",
         "peut_parametrage_global", "peut_voir_compte_emploi",
         "peut_voir_pv_confrontation", "peut_authentifier_document",
         "peut_voir_tous_postes">>,
     serv_emission |->
       <<"peut_saisir_inventaire_normal", "peut_saisir_inventaire_admin",
         "peut_programmer_inventaire", "peut_voir_programmation_active",
         "peut_voir_programmation_desactivee",
         "peut_voir_liste_inventaires", "peut_voir_liste_inventaires_admin",
         "peut_voir_jours_impertinents", "peut_voir_stats_deperdition",
         "peut_saisir_recette_peage", "peut_voir_liste_recettes_peage",
         "peut_voir_stats_recettes_peage", "peut_voir_evolution_peage",
         "peut_voir_objectifs_peage", "peut_saisir_quittance_peage",
         "peut_voir_liste_quittances_peage",
         "peut_comptabiliser_quittances_peage",
         "peut_voir_objectifs_pesage", "peut_lister_amendes",
         "peut_comptabiliser_quittances_pesage",
         "peut_voir_liste_quittancements_pesage",
         "peut_voir_historique_pesees", "peut_voir_recettes_pesage",
         "peut_voir_stats_pesage", "peut_charger_stock_peage",
         "peut_voir_liste_stocks_peage", "peut_voir_stock_date_peage",
         "peut_transferer_stock_peage", "peut_voir_tracabilite_tickets",
         "peut_voir_bordereaux_peage", "peut_voir_mon_stock_peage",
         "peut_voir_historique_stock_peage", "peut_simuler_commandes_peage",
         "peut_voir_classement_peage_rendement",
         "peut_voir_classement_station_pesage",
         "peut_voir_classement_peage_deperdition",
         "peut_voir_classement_agents_inventaire",
         "peut_voir_compte_emploi", "peut_voir_pv_confrontation",
         "peut_authentifier_document", "peut_voir_tous_postes">>,
     chef_ag |->
       <<"peut_gerer_postes", "peut_ajouter_poste",
         "peut_creer_poste_masse", "peut_gerer_utilisateurs",
         "peut_creer_utilisateur", "peut_voir_journal_audit",
         "peut_parametrage_global", "peut_voir_tous_postes">>,
     serv_controle |->
       <<"peut_voir_liste_inventaires", "peut_voir_jours_impertinents",
         "peut_voir_stats_deperdition", "peut_voir_liste_recettes_peage",
         "peut_voir_stats_recettes_peage", "peut_voir_evolution_peage",
         "peut_voir_objectifs_peage", "peut_voir_liste_quittances_peage",
         "peut_comptabiliser_quittances_peage",
         "peut_voir_objectifs_pesage", "peut_lister_amendes",
         "peut_comptabiliser_quittances_pesage",
         "peut_voir_liste_quittancements_pesage",
         "peut_voir_historique_pesees", "peut_voir_recettes_pesage",
         "peut_voir_stats_pesage", "peut_voir_liste_stocks_peage",
         "peut_voir_stock_date_peage", "peut_voir_tracabilite_tickets",
         "peut_voir_bordereaux_peage", "peut_voir_historique_stock_peage",
         "peut_voir_journal_audit", "peut_voir_rapports_defaillants_peage",
         "peut_voir_rapports_defaillants_pesage",
         "peut_voir_rapport_inventaires",
         "peut_voir_classement_peage_rendement",
         "peut_voir_classement_station_pesage",
         "peut_voir_classement_peage_deperdition",
         "peut_voir_classement_agents_inventaire",
         "peut_parametrage_global", "peut_voir_compte_emploi",
         "peut_voir_pv_confrontation", "peut_authentifier_document",
         "peut_voir_tous_postes">>,
     serv_ordre |->
       <<"peut_voir_stats_deperdition", "peut_voir_liste_recettes_peage",
         "peut_voir_stats_recettes_peage", "peut_voir_evolution_peage",
         "peut_voir_objectifs_peage", "peut_voir_liste_quittances_peage",
         "peut_comptabiliser_quittances_peage",
         "peut_voir_objectifs_pesage", "peut_lister_amendes",
         "peut_comptabiliser_quittances_pesage",
         "peut_voir_liste_quittancements_pesage",
         "peut_voir_historique_pesees", "peut_voir_recettes_pesage",
         "peut_voir_stats_pesage", "peut_voir_liste_stocks_peage",
         "peut_voir_tracabilite_tickets", "peut_voir_bordereaux_peage",
         "peut_voir_historique_stock_peage",
         "peut_voir_rapports_defaillants_peage",
         "peut_voir_rapports_defaillants_pesage",
         "peut_voir_rapport_inventaires",
         "peut_voir_classement_peage_rendement",
         "peut_voir_classement_station_pesage",
         "peut_voir_classement_peage_deperdition",
         "peut_voir_compte_emploi", "peut_voir_pv_confrontation",
         "peut_authentifier_document", "peut_voir_tous_postes">>,
     cisop_peage |->
       <<"peut_voir_liste_inventaires", "peut_voir_jours_impertinents",
         "peut_voir_stats_deperdition", "peut_voir_liste_recettes_peage",
         "peut_voir_stats_recettes_peage", "peut_voir_evolution_peage",
         "peut_voir_objectifs_peage", "peut_voir_liste_quittances_peage",
         "peut_comptabiliser_quittances_peage",
         "peut_voir_liste_stocks_peage", "peut_voir_stock_date_peage",
         "peut_voir_tracabilite_tickets", "peut_voir_bordereaux_peage",
         "peut_voir_historique_stock_peage",
         "peut_voir_rapports_defaillants_peage",
         "peut_voir_rapport_inventaires",
         "peut_voir_classement_peage_rendement",
         "peut_voir_classement_peage_deperdition",
         "peut_voir_classement_agents_inventaire",
         "peut_voir_compte_emploi", "peut_voir_pv_confrontation",
         "peut_authentifier_document", "peut_voir_tous_postes">>,
     cisop_pesage |->
       <<"peut_voir_historique_vehicule_pesage",
         "peut_voir_objectifs_pesage", "peut_lister_amendes",
         "peut_voir_liste_quittancements_pesage",
         "peut_voir_historique_pesees", "peut_voir_recettes_pesage",
         "peut_voir_stats_pesage", "peut_voir_rapports_defaillants_pesage",
         "peut_voir_classement_station_pesage",
         "peut_voir_pv_confrontation", "peut_authentifier_document",
         "peut_voir_tous_postes">>,
     chef_peage |->
       <<"peut_voir_liste_inventaires", "peut_voir_jours_impertinents",
         "peut_voir_stats_deperdition", "peut_voir_liste_inventaires_admin",
         "peut_saisir_recette_peage", "peut_voir_liste_recettes_peage",
         "peut_voir_stats_recettes_peage", "peut_voir_evolution_peage",
         "peut_voir_objectifs_peage", "peut_saisir_quittance_peage",
         "peut_voir_liste_quittances_peage",
         "peut_comptabiliser_quittances_peage",
         "peut_voir_liste_stocks_peage", "peut_voir_stock_date_peage",
         "peut_voir_tracabilite_tickets", "peut_voir_bordereaux_peage",
         "peut_voir_mon_stock_peage", "peut_voir_historique_stock_peage",
         "peut_voir_rapport_inventaires",
         "peut_voir_classement_peage_rendement",
         "peut_voir_classement_peage_deperdition",
         "peut_voir_classement_agents_inventaire",
         "peut_voir_compte_emploi", "peut_authentifier_document">>,
     agent_inventaire |->
       <<"peut_saisir_inventaire_normal">>,
     chef_station_pesage |->
       <<"peut_voir_historique_vehicule_pesage", "peut_saisir_amende",
         "peut_voir_objectifs_pesage", "peut_lister_amendes",
         "peut_voir_liste_quittancements_pesage",
         "peut_voir_historique_pesees", "peut_voir_recettes_pesage",
         "peut_voir_stats_pesage", "peut_voir_classement_station_pesage",
         "peut_voir_pv_confrontation", "peut_authentifier_document">>,
     regisseur_pesage |->
       <<"peut_voir_historique_vehicule_pesage", "peut_saisir_amende",
         "peut_saisir_pesee_jour", "peut_voir_objectifs_pesage",
         "peut_valider_paiement_amende", "peut_lister_amendes",
         "peut_saisir_quittance_pesage",
         "peut_voir_liste_quittancements_pesage",
         "peut_voir_historique_pesees", "peut_voir_recettes_pesage",
         "peut_voir_stats_pesage", "peut_voir_classement_station_pesage",
         "peut_voir_pv_confrontation", "peut_authentifier_document">>,
     chef_equipe_pesage |->
       <<"peut_voir_historique_vehicule_pesage", "peut_saisir_amende",
         "peut_saisir_pesee_jour", "peut_voir_objectifs_pesage",
         "peut_lister_amendes", "peut_voir_historique_pesees",
         "peut_voir_stats_pesage">>,
     imprimerie |->
       <<"peut_voir_historique_stock_peage">>
    ]

TOUTES_PERMISSIONS_manager ==
    <<"peut_saisir_inventaire_normal", "peut_saisir_inventaire_admin",
      "peut_programmer_inventaire", "peut_voir_programmation_active",
      "peut_desactiver_programmation", "peut_voir_programmation_desactivee",
      "peut_voir_liste_inventaires", "peut_voir_liste_inventaires_admin",
      "peut_voir_jours_impertinents", "peut_voir_stats_deperdition",
      "peut_saisir_recette_peage", "peut_voir_liste_recettes_peage",
      "peut_voir_stats_recettes_peage", "peut_importer_recettes_peage",
      "peut_voir_evolution_peage", "peut_voir_objectifs_peage",
      "peut_saisir_quittance_peage", "peut_voir_liste_quittances_peage",
      "peut_comptabiliser_quittances_peage",
      "peut_voir_historique_vehicule_pesage", "peut_saisir_amende",
      "peut_saisir_pesee_jour", "peut_voir_objectifs_pesage",
      "peut_valider_paiement_amende", "peut_lister_amendes",
      "peut_saisir_quittance_pesage",
      "peut_comptabiliser_quittances_pesage",
      "peut_voir_liste_quittancements_pesage",
      "peut_voir_historique_pesees", "peut_voir_recettes_pesage",
      "peut_voir_stats_pesage", "peut_charger_stock_peage",
      "peut_voir_liste_stocks_peage", "peut_voir_stock_date_peage",
      "peut_transferer_stock_peage", "peut_voir_tracabilite_tickets",
      "peut_voir_bordereaux_peage", "peut_voir_mon_stock_peage",
      "peut_voir_historique_stock_peage", "peut_simuler_commandes_peage",
      "peut_gerer_postes", "peut_ajouter_poste", "peut_creer_poste_masse",
      "peut_gerer_utilisateurs", "peut_creer_utilisateur",
      "peut_voir_journal_audit", "peut_voir_rapports_defaillants_peage",
      "peut_voir_rapports_defaillants_pesage",
      "peut_voir_rapport_inventaires",
      "peut_voir_classement_peage_rendement",
      "peut_voir_classement_station_pesage",
      "peut_voir_classement_peage_deperdition",
      "peut_voir_classement_agents_inventaire", "peut_parametrage_global",
      "peut_voir_compte_emploi", "peut_voir_pv_confrontation",
      "peut_authentifier_document", "peut_voir_tous_postes">>

\* part_001, first script: the permissions by category, in source order.
TOUTES_PERMISSIONS_auto ==
    [
     globales |->
       <<"acces_tous_postes", "peut_saisir_peage", "peut_saisir_pesage",
         "voir_recettes_potentielles", "voir_taux_deperdition",
         "voir_statistiques_globales", "peut_saisir_pour_autres_postes">>,
     modules |->
       <<"peut_gerer_peage", "peut_gerer_pesage", "peut_gerer_personnel",
         "peut_gerer_budget", "peut_gerer_inventaire",
         "peut_gerer_archives", "peut_gerer_stocks_psrr",
         "peut_gerer_stock_info">>,
     inventaires |->
       <<"peut_saisir_inventaire_normal", "peut_saisir_inventaire_admin",
         "peut_programmer_inventaire", "peut_voir_programmation_active",
         "peut_desactiver_programmation",
         "peut_voir_programmation_desactivee",
         "peut_voir_liste_inventaires", "peut_voir_liste_inventaires_admin",
         "peut_voir_jours_impertinents", "peut_voir_stats_deperdition">>,
     recettes_peage |->
       <<"peut_saisir_recette_peage", "peut_voir_liste_recettes_peage",
         "peut_voir_stats_recettes_peage", "peut_importer_recettes_peage",
         "peut_voir_evolution_peage", "peut_voir_objectifs_peage">>,
     quittances_peage |->
       <<"peut_saisir_quittance_peage", "peut_voir_liste_quittances_peage",
         "peut_comptabiliser_quittances_peage">>,
     pesage |->
       <<"peut_voir_historique_vehicule_pesage", "peut_saisir_amende",
         "peut_saisir_pesee_jour", "peut_voir_objectifs_pesage",
         "peut_valider_paiement_amende", "peut_lister_amendes",
         "peut_saisir_quittance_pesage",
         "peut_comptabiliser_quittances_pesage",
         "peut_voir_liste_quittancements_pesage",
         "peut_voir_historique_pesees", "peut_voir_recettes_pesage",
         "peut_voir_stats_pesage">>,
     stock_peage |->
       <<"peut_charger_stock_peage", "peut_voir_liste_stocks_peage",
         "peut_voir_stock_date_peage", "peut_transferer_stock_peage",
         "peut_voir_tracabilite_tickets", "peut_voir_bordereaux_peage",
         "peut_voir_mon_stock_peage", "peut_voir_historique_stock_peage",
         "peut_simuler_commandes_peage">>,
     gestion |->
       <<"peut_gerer_postes", "peut_ajouter_poste",
         "peut_creer_poste_masse", "peut_gerer_utilisateurs",
         "peut_creer_utilisateur", "peut_voir_journal_audit">>,
     rapports |->
       <<"peut_voir_rapports_defaillants_peage",
         "peut_voir_rapports_defaillants_pesage",
         "peut_voir_rapport_inventaires",
         "peut_voir_classement_peage_rendement",
         "peut_voir_classement_station_pesage",
         "peut_voir_classement_peage_deperdition",
         "peut_voir_classement_agents_inventaire">>,
     autres |->
       <<"peut_parametrage_global", "peut_voir_compte_emploi",
         "peut_voir_pv_confrontation", "peut_authentifier_document",
         "peut_voir_tous_postes">>
    ]

CategoriesAuto ==
    <<"globales", "modules", "inventaires", "recettes_peage",
      "quittances_peage", "pesage", "stock_peage", "gestion", "rapports",
      "autres">>

\* getToutesPermissions(): the categories concatenated in insertion order.
RECURSIVE ConcatCategories(_)
ConcatCategories(n) ==
    IF n = 0 THEN <<>>
    ELSE ConcatCategories(n - 1) \o TOUTES_PERMISSIONS_auto[CategoriesAuto[n]]

getToutesPermissions == ConcatCategories(Len(CategoriesAuto))

\* The object literal of the first script of part_001.
HabilitationLiteralAuto ==
    [
     admin_principal |->
       getToutesPermissions,
     coord_psrr |->
       getToutesPermissions,
     serv_info |->
       getToutesPermissions,
     serv_emission |->
       <<"acces_tous_postes", "peut_saisir_peage",
         "voir_recettes_potentielles", "voir_taux_deperdition",
         "voir_statistiques_globales", "peut_saisir_pour_autres_postes",
         "peut_gerer_peage", "peut_gerer_inventaire",
         "peut_gerer_stocks_psrr", "peut_voir_programmation_active",
         "peut_voir_liste_inventaires", "peut_voir_liste_inventaires_admin",
         "peut_voir_jours_impertinents", "peut_voir_stats_deperdition",
         "peut_saisir_recette_peage", "peut_voir_liste_recettes_peage",
         "peut_voir_stats_recettes_peage", "peut_importer_recettes_peage",
         "peut_voir_evolution_peage", "peut_voir_objectifs_peage",
         "peut_saisir_quittance_peage", "peut_voir_liste_quittances_peage",
         "peut_comptabiliser_quittances_peage", "peut_charger_stock_peage",
         "peut_voir_liste_stocks_peage", "peut_voir_stock_date_peage",
         "peut_transferer_stock_peage", "peut_voir_tracabilite_tickets",
         "peut_voir_bordereaux_peage", "peut_voir_historique_stock_peage",
         "peut_simuler_commandes_peage",
         "peut_voir_rapports_defaillants_peage",
         "peut_voir_rapport_inventaires",
         "peut_voir_classement_peage_rendement",
         "peut_voir_classement_peage_deperdition",
         "peut_voir_classement_agents_inventaire",
         "peut_authentifier_document", "peut_voir_tous_postes">>,
     chef_ag |->
       <<"acces_tous_postes", "voir_statistiques_globales",
         "peut_gerer_personnel", "peut_gerer_archives",
         "peut_gerer_utilisateurs", "peut_creer_utilisateur",
         "peut_voir_journal_audit", "peut_voir_rapports_defaillants_peage",
         "peut_voir_rapports_defaillants_pesage",
         "peut_voir_classement_agents_inventaire",
         "peut_voir_compte_emploi", "peut_voir_pv_confrontation",
         "peut_authentifier_document", "peut_voir_tous_postes">>,
     serv_controle |->
       <<"acces_tous_postes", "voir_recettes_potentielles",
         "voir_taux_deperdition", "voir_statistiques_globales",
         "peut_gerer_archives", "peut_voir_programmation_active",
         "peut_voir_liste_inventaires", "peut_voir_liste_inventaires_admin",
         "peut_voir_jours_impertinents", "peut_voir_stats_deperdition",
         "peut_voir_liste_recettes_peage", "peut_voir_stats_recettes_peage",
         "peut_voir_evolution_peage", "peut_voir_liste_quittances_peage",
         "peut_voir_historique_pesees", "peut_voir_recettes_pesage",
         "peut_voir_stats_pesage", "peut_lister_amendes",
         "peut_voir_liste_quittancements_pesage",
         "peut_voir_liste_stocks_peage", "peut_voir_tracabilite_tickets",
         "peut_voir_bordereaux_peage",
         "peut_voir_rapports_defaillants_peage",
         "peut_voir_rapports_defaillants_pesage",
         "peut_voir_rapport_inventaires",
         "peut_voir_classement_peage_rendement",
         "peut_voir_classement_station_pesage",
         "peut_voir_classement_peage_deperdition",
         "peut_voir_classement_agents_inventaire",
         "peut_voir_pv_confrontation", "peut_authentifier_document",
         "peut_voir_tous_postes">>,
     serv_ordre |->
       <<"acces_tous_postes", "voir_statistiques_globales",
         "peut_gerer_archives", "peut_voir_liste_inventaires",
         "peut_voir_liste_recettes_peage",
         "peut_voir_liste_quittances_peage", "peut_voir_recettes_pesage",
         "peut_lister_amendes", "peut_voir_liste_quittancements_pesage",
         "peut_voir_rapport_inventaires", "peut_authentifier_document",
         "peut_voir_tous_postes">>,
     imprimerie |->
       <<"acces_tous_postes", "peut_gerer_stocks_psrr",
         "peut_charger_stock_peage", "peut_voir_liste_stocks_peage",
         "peut_voir_stock_date_peage", "peut_voir_tracabilite_tickets",
         "peut_voir_bordereaux_peage", "peut_voir_historique_stock_peage",
         "peut_simuler_commandes_peage", "peut_voir_tous_postes">>,
     cisop_peage |->
       <<"acces_tous_postes", "peut_saisir_peage",
         "voir_recettes_potentielles", "voir_taux_deperdition",
         "voir_statistiques_globales", "peut_saisir_pour_autres_postes",
         "peut_gerer_peage", "peut_gerer_inventaire",
         "peut_saisir_inventaire_admin", "peut_programmer_inventaire",
         "peut_voir_programmation_active", "peut_desactiver_programmation",
         "peut_voir_programmation_desactivee",
         "peut_voir_liste_inventaires", "peut_voir_liste_inventaires_admin",
         "peut_voir_jours_impertinents", "peut_voir_stats_deperdition",
         "peut_saisir_recette_peage", "peut_voir_liste_recettes_peage",
         "peut_voir_stats_recettes_peage", "peut_importer_recettes_peage",
         "peut_voir_evolution_peage", "peut_voir_objectifs_peage",
         "peut_saisir_quittance_peage", "peut_voir_liste_quittances_peage",
         "peut_comptabiliser_quittances_peage", "peut_charger_stock_peage",
         "peut_voir_liste_stocks_peage", "peut_voir_stock_date_peage",
         "peut_transferer_stock_peage", "peut_voir_tracabilite_tickets",
         "peut_voir_bordereaux_peage", "peut_voir_historique_stock_peage",
         "peut_voir_rapports_defaillants_peage",
         "peut_voir_rapport_inventaires",
         "peut_voir_classement_peage_rendement",
         "peut_voir_classement_peage_deperdition",
         "peut_voir_classement_agents_inventaire", "peut_voir_tous_postes">>,
     cisop_pesage |->
       <<"acces_tous_postes", "peut_saisir_pesage",
         "voir_statistiques_globales", "peut_saisir_pour_autres_postes",
         "peut_gerer_pesage", "peut_voir_historique_vehicule_pesage",
         "peut_saisir_amende", "peut_saisir_pesee_jour",
         "peut_voir_objectifs_pesage", "peut_valider_paiement_amende",
         "peut_lister_amendes", "peut_saisir_quittance_pesage",
         "peut_comptabiliser_quittances_pesage",
         "peut_voir_liste_quittancements_pesage",
         "peut_voir_historique_pesees", "peut_voir_recettes_pesage",
         "peut_voir_stats_pesage", "peut_voir_rapports_defaillants_pesage",
         "peut_voir_classement_station_pesage", "peut_voir_tous_postes">>,
     focal_regional |->
       <<"acces_tous_postes", "peut_saisir_peage", "peut_saisir_pesage",
         "voir_recettes_potentielles", "voir_taux_deperdition",
         "voir_statistiques_globales", "peut_gerer_inventaire",
         "peut_voir_programmation_active", "peut_voir_liste_inventaires",
         "peut_voir_jours_impertinents", "peut_voir_stats_deperdition",
         "peut_voir_liste_recettes_peage", "peut_voir_stats_recettes_peage",
         "peut_voir_evolution_peage", "peut_voir_liste_quittances_peage",
         "peut_voir_historique_pesees", "peut_voir_recettes_pesage",
         "peut_voir_stats_pesage", "peut_lister_amendes",
         "peut_voir_liste_quittancements_pesage",
         "peut_voir_liste_stocks_peage",
         "peut_voir_rapports_defaillants_peage",
         "peut_voir_rapports_defaillants_pesage",
         "peut_voir_rapport_inventaires",
         "peut_voir_classement_peage_rendement",
         "peut_voir_classement_station_pesage",
         "peut_voir_classement_peage_deperdition", "peut_voir_tous_postes">>,
     chef_service |->
       <<"acces_tous_postes", "voir_statistiques_globales",
         "peut_voir_programmation_active", "peut_voir_liste_inventaires",
         "peut_voir_stats_deperdition", "peut_voir_liste_recettes_peage",
         "peut_voir_stats_recettes_peage",
         "peut_voir_liste_quittances_peage", "peut_voir_recettes_pesage",
         "peut_voir_stats_pesage", "peut_lister_amendes",
         "peut_voir_liste_quittancements_pesage",
         "peut_voir_rapport_inventaires", "peut_voir_tous_postes">>,
     regisseur |->
       <<"acces_tous_postes", "voir_recettes_potentielles",
         "voir_taux_deperdition", "voir_statistiques_globales",
         "peut_gerer_budget", "peut_voir_liste_recettes_peage",
         "peut_voir_stats_recettes_peage", "peut_voir_evolution_peage",
         "peut_voir_objectifs_peage", "peut_voir_liste_quittances_peage",
         "peut_comptabiliser_quittances_peage", "peut_voir_recettes_pesage",
         "peut_voir_stats_pesage", "peut_lister_amendes",
         "peut_comptabiliser_quittances_pesage",
         "peut_voir_liste_quittancements_pesage",
         "peut_voir_classement_peage_rendement",
         "peut_voir_classement_station_pesage", "peut_voir_compte_emploi",
         "peut_voir_tous_postes">>,
     comptable_mat |->
       <<"acces_tous_postes", "peut_gerer_archives",
         "peut_gerer_stocks_psrr", "peut_voir_liste_stocks_peage",
         "peut_voir_stock_date_peage", "peut_voir_tracabilite_tickets",
         "peut_voir_bordereaux_peage", "peut_voir_historique_stock_peage",
         "peut_voir_compte_emploi", "peut_voir_tous_postes">>,
     chef_peage |->
       <<"peut_saisir_peage", "voir_recettes_potentielles",
         "voir_taux_deperdition", "peut_gerer_peage",
         "peut_gerer_inventaire", "peut_saisir_inventaire_normal",
         "peut_voir_programmation_active", "peut_voir_liste_inventaires",
         "peut_voir_jours_impertinents", "peut_voir_stats_deperdition",
         "peut_saisir_recette_peage", "peut_voir_liste_recettes_peage",
         "peut_voir_stats_recettes_peage", "peut_voir_evolution_peage",
         "peut_saisir_quittance_peage", "peut_voir_liste_quittances_peage",
         "peut_voir_liste_stocks_peage", "peut_voir_mon_stock_peage",
         "peut_voir_historique_stock_peage", "peut_voir_rapport_inventaires">>,
     agent_inventaire |->
       <<"peut_gerer_inventaire", "peut_saisir_inventaire_normal",
         "peut_voir_programmation_active", "peut_voir_liste_inventaires">>,
     chef_station_pesage |->
       <<"peut_saisir_pesage", "peut_gerer_pesage",
         "peut_voir_historique_vehicule_pesage", "peut_saisir_amende",
         "peut_saisir_pesee_jour", "peut_voir_objectifs_pesage",
         "peut_valider_paiement_amende", "peut_lister_amendes",
         "peut_saisir_quittance_pesage",
         "peut_voir_liste_quittancements_pesage",
         "peut_voir_historique_pesees", "peut_voir_recettes_pesage",
         "peut_voir_stats_pesage">>,
     chef_pesage |->
       <<>>,
     regisseur_pesage |->
       <<"peut_saisir_pesage", "peut_gerer_pesage", "peut_gerer_budget",
         "peut_voir_historique_vehicule_pesage", "peut_saisir_amende",
         "peut_voir_objectifs_pesage", "peut_valider_paiement_amende",
         "peut_lister_amendes", "peut_saisir_quittance_pesage",
         "peut_comptabiliser_quittances_pesage",
         "peut_voir_liste_quittancements_pesage",
         "peut_voir_historique_pesees", "peut_voir_recettes_pesage",
         "peut_voir_stats_pesage", "peut_voir_compte_emploi">>,
     chef_equipe_pesage |->
       <<"peut_saisir_pesage", "peut_voir_historique_vehicule_pesage",
         "peut_saisir_amende", "peut_saisir_pesee_jour",
         "peut_lister_amendes", "peut_voir_historique_pesees">>,
     caissier |->
       <<"peut_saisir_quittance_peage", "peut_voir_liste_quittances_peage",
         "peut_voir_mon_stock_peage">>
    ]

\* The table after the three alias assignments that follow the literal.
PERMISSIONS_PAR_HABILITATION_auto ==
    [r \in DOMAIN HabilitationLiteralAuto \cup {"chef_ordre", "chef_controle"} |->
        CASE r = "chef_pesage"   -> HabilitationLiteralAuto["chef_station_pesage"]
          [] r = "chef_ordre"    -> HabilitationLiteralAuto["serv_ordre"]
          [] r = "chef_controle" -> HabilitationLiteralAuto["serv_controle"]
          [] OTHER               -> HabilitationLiteralAuto[r]]

\* part_001, second script: the role table and the full list.
PERMISSIONS_PAR_HABILITATION_mapping ==
    [
     admin_principal |->
       <<"peut_saisir_inventaire_normal", "peut_saisir_inventaire_admin",
         "peut_programmer_inventaire", "peut_voir_programmation_active",
         "peut_desactiver_programmation",
         "peut_voir_programmation_desactivee",
         "peut_voir_liste_inventaires", "peut_voir_liste_inventaires_admin",
         "peut_voir_jours_impertinents", "peut_voir_stats_deperdition",
         "peut_saisir_recette_peage", "peut_voir_liste_recettes_peage",
         "peut_voir_stats_recettes_peage", "peut_importer_recettes_peage",
         "peut_voir_evolution_peage", "peut_voir_objectifs_peage",
         "peut_saisir_quittance_peage", "peut_voir_liste_quittances_peage",
         "peut_comptabiliser_quittances_peage",
         "peut_voir_historique_vehicule_pesage", "peut_saisir_amende",
         "peut_saisir_pesee_jour", "peut_voir_objectifs_pesage",
         "peut_valider_paiement_amende", "peut_lister_amendes",
         "peut_saisir_quittance_pesage",
         "peut_comptabiliser_quittances_pesage",
         "peut_voir_liste_quittancements_pesage",
         "peut_voir_historique_pesees", "peut_voir_recettes_pesage",
         "peut_voir_stats_pesage", "peut_charger_stock_peage",
         "peut_voir_liste_stocks_peage", "peut_voir_stock_date_peage",
         "peut_transferer_stock_peage", "peut_voir_tracabilite_tickets",
         "peut_voir_bordereaux_peage", "peut_voir_mon_stock_peage",
         "peut_voir_historique_stock_peage", "peut_simuler_commandes_peage",
         "peut_gerer_postes", "peut_ajouter_poste",
         "peut_creer_poste_masse", "peut_gerer_utilisateurs",
         "peut_creer_utilisateur", "peut_voir_journal_audit",
         "peut_voir_rapports_defaillants_peage",
         "peut_voir_rapports_defaillants_pesage",
         "peut_voir_rapport_inventaires",
         "peut_voir_classement_peage_rendement",
         "peut_voir_classement_station_pesage",
         "peut_voir_classement_peage_deperdition",
         "peut_voir_classement_agents_inventaire",
         "peut_parametrage_global", "peut_voir_compte_emploi",
         "peut_voir_pv_confrontation", "peut_authentifier_document",
         "peut_voir_tous_postes">>,
     coord_psrr |->
       <<"peut_saisir_inventaire_normal", "peut_saisir_inventaire_admin",
         "peut_programmer_inventaire", "peut_voir_programmation_active",
         "peut_desactiver_programmation",
         "peut_voir_programmation_desactivee",
         "peut_voir_liste_inventaires", "peut_voir_liste_inventaires_admin",
         "peut_voir_jours_impertinents", "peut_voir_stats_deperdition",
         "peut_saisir_recette_peage", "peut_voir_liste_recettes_peage",
         "peut_voir_stats_recettes_peage", "peut_importer_recettes_peage",
         "peut_voir_evolution_peage", "peut_voir_objectifs_peage",
         "peut_saisir_quittance_peage", "peut_voir_liste_quittances_peage",
         "peut_comptabiliser_quittances_peage",
         "peut_voir_historique_vehicule_pesage", "peut_saisir_amende",
         "peut_saisir_pesee_jour", "peut_voir_objectifs_pesage",
         "peut_valider_paiement_amende", "peut_lister_amendes",
         "peut_saisir_quittance_pesage",
         "peut_comptabiliser_quittances_pesage",
         "peut_voir_liste_quittancements_pesage",
         "peut_voir_historique_pesees", "peut_voir_recettes_pesage",
         "peut_voir_stats_pesage", "peut_charger_stock_peage",
         "peut_voir_liste_stocks_peage", "peut_voir_stock_date_peage",
         "peut_transferer_stock_peage", "peut_voir_tracabilite_tickets",
         "peut_voir_bordereaux_peage", "peut_voir_mon_stock_peage",
         "peut_voir_historique_stock_peage", "peut_simuler_commandes_peage",
         "peut_gerer_postes", "peut_ajouter_poste",
         "peut_creer_poste_masse", "peut_gerer_utilisateurs",
         "peut_creer_utilisateur", "peut_voir_journal_audit",
         "peut_voir_rapports_defaillants_peage",
         "peut_voir_rapports_defaillants_pesage",
         "peut_voir_rapport_inventaires",
         "peut_voir_classement_peage_rendement",
         "peut_voir_classement_station_pesage",
         "peut_voir_classement_peage_deperdition",
         "peut_voir_classement_agents_inventaire",
         "peut_parametrage_global", "peut_voir_compte_emploi",
         "peut_voir_pv_confrontation", "peut_authentifier_document",
         "peut_voir_tous_postes">>,
     serv_info |->
       <<"peut_saisir_inventaire_normal", "peut_saisir_inventaire_admin",
         "peut_programmer_inventaire", "peut_voir_programmation_active",
         "peut_desactiver_programmation",
         "peut_voir_programmation_desactivee",
         "peut_voir_liste_inventaires", "peut_voir_liste_inventaires_admin",
         "peut_voir_jours_impertinents", "peut_voir_stats_deperdition",
         "peut_saisir_recette_peage", "peut_voir_liste_recettes_peage",
         "peut_voir_stats_recettes_peage", "peut_importer_recettes_peage",
         "peut_voir_evolution_peage", "peut_voir_objectifs_peage",
         "peut_saisir_quittance_peage", "peut_voir_liste_quittances_peage",
         "peut_comptabiliser_quittances_peage",
         "peut_voir_historique_vehicule_pesage", "peut_saisir_amende",
         "peut_saisir_pesee_jour", "peut_voir_objectifs_pesage",
         "peut_valider_paiement_amende", "peut_lister_amendes",
         "peut_saisir_quittance_pesage",
         "peut_comptabiliser_quittances_pesage",
         "peut_voir_liste_quittancements_pesage",
         "peut_voir_historique_pesees", "peut_voir_recettes_pesage",
         "peut_voir_stats_pesage", "peut_charger_stock_peage",
         "peut_voir_liste_stocks_peage", "peut_voir_stock_date_peage",
         "peut_transferer_stock_peage", "peut_voir_tracabilite_tickets",
         "peut_voir_bordereaux_peage", "peut_voir_mon_stock_peage",
         "peut_voir_historique_stock_peage", "peut_simuler_commandes_peage",
         "peut_gerer_postes", "peut_ajouter_poste",
         "peut_creer_poste_masse", "peut_gerer_utilisateurs",
         "peut_creer_utilisateur", "peut_voir_journal_audit",
         "peut_voir_rapports_defaillants_peage",
         "peut_voir_rapports_defaillants_pesage",
         "peut_voir_rapport_inventaires",
         "peut_voir_classement_peage_rendement",
         "peut_voir_classement_station_pesage",
         "peut_voir_classement_peage_deperdition",
         "peut_voir_classement_agents_inventaire",
         "peut_parametrage_global", "peut_voir_compte_emploi",
         "peut_voir_pv_confrontation", "peut_authentifier_document",
         "peut_voir_tous_postes">>,
     serv_emission |->
       <<"peut_saisir_inventaire_normal", "peut_saisir_inventaire_admin",
         "peut_programmer_inventaire", "peut_voir_programmation_active",
         "peut_voir_programmation_desactivee",
         "peut_voir_liste_inventaires", "peut_voir_liste_inventaires_admin",
         "peut_voir_jours_impertinents", "peut_voir_stats_deperdition",
         "peut_saisir_recette_peage", "peut_voir_liste_recettes_peage",
         "peut_voir_stats_recettes_peage", "peut_voir_evolution_peage",
         "peut_voir_objectifs_peage", "peut_saisir_quittance_peage",
         "peut_voir_liste_quittances_peage",
         "peut_comptabiliser_quittances_peage",
         "peut_voir_objectifs_pesage", "peut_lister_amendes",
         "peut_comptabiliser_quittances_pesage",
         "peut_voir_liste_quittancements_pesage",
         "peut_voir_historique_pesees", "peut_voir_recettes_pesage",
         "peut_voir_stats_pesage", "peut_charger_stock_peage",
         "peut_voir_liste_stocks_peage", "peut_voir_stock_date_peage",
         "peut_transferer_stock_peage", "peut_voir_tracabilite_tickets",
         "peut_voir_bordereaux_peage", "peut_voir_mon_stock_peage",
         "peut_voir_historique_stock_peage", "peut_simuler_commandes_peage",
         "peut_voir_classement_peage_rendement",
         "peut_voir_classement_station_pesage",
         "peut_voir_classement_peage_deperdition",
         "peut_voir_classement_agents_inventaire",
         "peut_voir_compte_emploi", "peut_voir_pv_confrontation",
         "peut_authentifier_document", "peut_voir_tous_postes">>,
     chef_ag |->
       <<"peut_gerer_postes", "peut_ajouter_poste",
         "peut_creer_poste_masse", "peut_gerer_utilisateurs",
         "peut_creer_utilisateur", "peut_voir_journal_audit",
         "peut_parametrage_global">>,
     serv_controle |->
       <<"peut_voir_liste_inventaires", "peut_voir_jours_impertinents",
         "peut_voir_stats_deperdition", "peut_voir_liste_recettes_peage",
         "peut_voir_stats_recettes_peage", "peut_voir_evolution_peage",
         "peut_voir_objectifs_peage", "peut_voir_liste_quittances_peage",
         "peut_comptabiliser_quittances_peage",
         "peut_voir_objectifs_pesage", "peut_lister_amendes",
         "peut_comptabiliser_quittances_pesage",
         "peut_voir_liste_quittancements_pesage",
         "peut_voir_historique_pesees", "peut_voir_recettes_pesage",
         "peut_voir_stats_pesage", "peut_voir_liste_stocks_peage",
         "peut_voir_stock_date_peage", "peut_voir_tracabilite_tickets",
         "peut_voir_bordereaux_peage", "peut_voir_historique_stock_peage",
         "peut_voir_journal_audit", "peut_voir_rapports_defaillants_peage",
         "peut_voir_rapports_defaillants_pesage",
         "peut_voir_rapport_inventaires",
         "peut_voir_classement_peage_rendement",
         "peut_voir_classement_station_pesage",
         "peut_voir_classement_peage_deperdition",
         "peut_voir_classement_agents_inventaire",
         "peut_parametrage_global", "peut_voir_compte_emploi",
         "peut_voir_pv_confrontation", "peut_authentifier_document",
         "peut_voir_tous_postes">>,
     serv_ordre |->
       <<"peut_voir_stats_deperdition", "peut_voir_liste_recettes_peage",
         "peut_voir_stats_recettes_peage", "peut_voir_evolution_peage",
         "peut_voir_objectifs_peage", "peut_voir_liste_quittances_peage",
         "peut_comptabiliser_quittances_peage",
         "peut_voir_objectifs_pesage", "peut_lister_amendes",
         "peut_comptabiliser_quittances_pesage",
         "peut_voir_liste_quittancements_pesage",
         "peut_voir_historique_pesees", "peut_voir_recettes_pesage",
         "peut_voir_stats_pesage", "peut_voir_liste_stocks_peage",
         "peut_voir_tracabilite_tickets", "peut_voir_bordereaux_peage",
         "peut_voir_historique_stock_peage",
         "peut_voir_rapports_defaillants_peage",
         "peut_voir_rapports_defaillants_pesage",
         "peut_voir_rapport_inventaires",
         "peut_voir_classement_peage_rendement",
         "peut_voir_classement_station_pesage",
         "peut_voir_classement_peage_deperdition",
         "peut_voir_compte_emploi", "peut_voir_pv_confrontation",
         "peut_authentifier_document", "peut_voir_tous_postes">>,
     imprimerie |->
       <<"peut_voir_historique_stock_peage">>,
     cisop_peage |->
       <<"peut_voir_liste_inventaires", "peut_voir_jours_impertinents",
         "peut_voir_stats_deperdition", "peut_voir_liste_recettes_peage",
         "peut_voir_stats_recettes_peage", "peut_voir_evolution_peage",
         "peut_voir_objectifs_peage", "peut_voir_liste_quittances_peage",
         "peut_comptabiliser_quittances_peage",
         "peut_voir_liste_stocks_peage", "peut_voir_stock_date_peage",
         "peut_voir_tracabilite_tickets", "peut_voir_bordereaux_peage",
         "peut_voir_historique_stock_peage",
         "peut_voir_rapports_defaillants_peage",
         "peut_voir_rapport_inventaires",
         "peut_voir_classement_peage_rendement",
         "peut_voir_classement_peage_deperdition",
         "peut_voir_classement_agents_inventaire",
         "peut_voir_compte_emploi", "peut_voir_pv_confrontation",
         "peut_authentifier_document", "peut_voir_tous_postes">>,
     cisop_pesage |->
       <<"peut_voir_historique_vehicule_pesage",
         "peut_voir_objectifs_pesage", "peut_lister_amendes",
         "peut_voir_liste_quittancements_pesage",
         "peut_voir_historique_pesees", "peut_voir_recettes_pesage",
         "peut_voir_stats_pesage", "peut_voir_rapports_defaillants_pesage",
         "peut_voir_classement_station_pesage",
         "peut_voir_pv_confrontation", "peut_authentifier_document",
         "peut_voir_tous_postes">>,
     chef_poste |->
       <<"peut_saisir_inventaire_normal", "peut_voir_liste_inventaires",
         "peut_voir_jours_impertinents", "peut_voir_stats_deperdition",
         "peut_saisir_recette_peage", "peut_voir_liste_recettes_peage",
         "peut_voir_stats_recettes_peage", "peut_voir_evolution_peage",
         "peut_voir_objectifs_peage", "peut_saisir_quittance_peage",
         "peut_voir_liste_quittances_peage",
         "peut_comptabiliser_quittances_peage", "peut_charger_stock_peage",
         "peut_voir_liste_stocks_peage", "peut_voir_stock_date_peage",
         "peut_transferer_stock_peage", "peut_voir_tracabilite_tickets",
         "peut_voir_bordereaux_peage", "peut_voir_mon_stock_peage",
         "peut_voir_historique_stock_peage",
         "peut_voir_rapport_inventaires",
         "peut_voir_classement_peage_rendement",
         "peut_voir_classement_peage_deperdition",
         "peut_voir_classement_agents_inventaire",
         "peut_voir_compte_emploi", "peut_voir_pv_confrontation",
         "peut_authentifier_document">>,
     chef_station_pesage |->
       <<"peut_voir_historique_vehicule_pesage", "peut_saisir_amende",
         "peut_saisir_pesee_jour", "peut_voir_objectifs_pesage",
         "peut_valider_paiement_amende", "peut_lister_amendes",
         "peut_saisir_quittance_pesage",
         "peut_comptabiliser_quittances_pesage",
         "peut_voir_liste_quittancements_pesage",
         "peut_voir_historique_pesees", "peut_voir_recettes_pesage",
         "peut_voir_stats_pesage", "peut_voir_classement_station_pesage",
         "peut_voir_pv_confrontation", "peut_authentifier_document">>,
     regisseur_pesage |->
       <<"peut_voir_historique_vehicule_pesage", "peut_saisir_amende",
         "peut_saisir_pesee_jour", "peut_voir_objectifs_pesage",
         "peut_valider_paiement_amende", "peut_lister_amendes",
         "peut_saisir_quittance_pesage",
         "peut_voir_liste_quittancements_pesage",
         "peut_voir_historique_pesees", "peut_voir_recettes_pesage",
         "peut_voir_stats_pesage", "peut_voir_classement_station_pesage">>,
     chef_equipe_pesage |->
       <<"peut_voir_historique_vehicule_pesage", "peut_saisir_amende",
         "peut_saisir_pesee_jour", "peut_voir_objectifs_pesage",
         "peut_lister_amendes", "peut_voir_liste_quittancements_pesage",
         "peut_voir_historique_pesees", "peut_voir_stats_pesage">>,
     agent_inventaire |->
       <<"peut_saisir_inventaire_normal">>
    ]

TOUTES_PERMISSIONS_mapping ==
    <<"peut_saisir_inventaire_normal", "peut_saisir_inventaire_admin",
      "peut_programmer_inventaire", "peut_voir_programmation_active",
      "peut_desactiver_programmation", "peut_voir_programmation_desactivee",
      "peut_voir_liste_inventaires", "peut_voir_liste_inventaires_admin",
      "peut_voir_jours_impertinents", "peut_voir_stats_deperdition",
      "peut_saisir_recette_peage", "peut_voir_liste_recettes_peage",
      "peut_voir_stats_recettes_peage", "peut_importer_recettes_peage",
      "peut_voir_evolution_peage", "peut_voir_objectifs_peage",
      "peut_saisir_quittance_peage", "peut_voir_liste_quittances_peage",
      "peut_comptabiliser_quittances_peage",
      "peut_voir_historique_vehicule_pesage", "peut_saisir_amende",
      "peut_saisir_pesee_jour", "peut_voir_objectifs_pesage",
      "peut_valider_paiement_amende", "peut_lister_amendes",
      "peut_saisir_quittance_pesage",
      "peut_comptabiliser_quittances_pesage",
      "peut_voir_liste_quittancements_pesage",
      "peut_voir_historique_pesees", "peut_voir_recettes_pesage",
      "peut_voir_stats_pesage", "peut_charger_stock_peage",
      "peut_voir_liste_stocks_peage", "peut_voir_stock_date_peage",
      "peut_transferer_stock_peage", "peut_voir_tracabilite_tickets",
      "peut_voir_bordereaux_peage", "peut_voir_mon_stock_peage",
      "peut_voir_historique_stock_peage", "peut_simuler_commandes_peage",
      "peut_gerer_postes", "peut_ajouter_poste", "peut_creer_poste_masse",
      "peut_gerer_utilisateurs", "peut_creer_utilisateur",
      "peut_voir_journal_audit", "peut_voir_rapports_defaillants_peage",
      "peut_voir_rapports_defaillants_pesage",
      "peut_voir_rapport_inventaires",
      "peut_voir_classement_peage_rendement",
      "peut_voir_classement_station_pesage",
      "peut_voir_classement_peage_deperdition",
      "peut_voir_classement_agents_inventaire", "peut_parametrage_global",
      "peut_voir_compte_emploi", "peut_voir_pv_confrontation",
      "peut_authentifier_document", "peut_voir_tous_postes">>

Scripts == {"manager", "auto", "mapping"}

\* PERMISSIONS_PAR_HABILITATION of the script the page loads
Table(s) ==
    CASE s = "manager" -> PERMISSIONS_PAR_HABILITATION_manager
      [] s = "auto"    -> PERMISSIONS_PAR_HABILITATION_auto
      [] s = "mapping" -> PERMISSIONS_PAR_HABILITATION_mapping

\* TOUTES_PERMISSIONS / getToutesPermissions() of the script the page loads
Toutes(s) ==
    CASE s = "manager" -> TOUTES_PERMISSIONS_manager
      [] s = "auto"    -> getToutesPermissions
      [] s = "mapping" -> TOUTES_PERMISSIONS_mapping

\* Property names every table inherits from Object.prototype, of which the
\* model takes one: table['constructor'] is a function, a truthy value that
\* has no forEach and no property 'permissions' or 'departements'.
InheritedKeys == {"constructor"}

\* habilitation is a key of PERMISSIONS_PAR_HABILITATION: the lookup gives
\* the list of a role
IsRole(s, h) == h \in DOMAIN Table(s)

\* PERMISSIONS_PAR_HABILITATION[habilitation] is truthy
HasRole(s, h) == IsRole(s, h) \/ h \in InheritedKeys

\* permissions.forEach(...) throws a TypeError: the value looked up is
\* truthy and is not a list
ForEachThrows(s, h) == HasRole(s, h) /\ ~IsRole(s, h)

\* The permissions the modelled page may hold a checkbox for: one that the
\* smallest role of every copy grants, one that chef_ag has in two copies
\* only, one that only the first script of part_001 lists.
PagePermissions ==
    {"peut_saisir_inventaire_normal", "peut_voir_tous_postes",
     "peut_gerer_inventaire"}

\* How the checkbox of a permission is present in the page: with the id
\* 'id_<permission>', with the name only, or not at all.
DomKinds == {"id", "name", "absent"}

\* Every role id any of the three tables knows (a role of one copy is
\* unknown to another).
AllRoles ==
    DOMAIN PERMISSIONS_PAR_HABILITATION_manager
         \cup DOMAIN PERMISSIONS_PAR_HABILITATION_auto
         \cup DOMAIN PERMISSIONS_PAR_HABILITATION_mapping

\* The options of select#id_habilitation, and the role ids passed to direct
\* calls: no role, and one role for each way the three tables treat the
\* permissions of the page (two roles left out of the same class are known
\* to the same copies and list the same permissions of the page in each).
SelectOptions ==
    {"", "admin_principal", "serv_emission", "chef_ag", "serv_controle",
     "cisop_peage", "chef_peage", "agent_inventaire", "chef_station_pesage",
     "imprimerie", "focal_regional", "chef_service", "chef_poste", "caissier"}

\* The role ids another script may pass to a direct call: those of the
\* select, which the server fills with role codes, and an inherited name.
CallRoles == SelectOptions \cup InheritedKeys

\* document.getElementById('id_' + perm) finds a checkbox
ById(d, p) == p \in DOMAIN d /\ d[p] = "id"

\* document.querySelector('input[name="<perm>"]') finds one that has no id
ByName(d, p) == p \in DOMAIN d /\ d[p] = "name"

\* The checkboxes present in the page
Present(d) == {p \in DOMAIN d : d[p] # "absent"}

\* A reset that unchecks nothing.
ResetNothing(s, d, c) == c

\* resetAllPermissions / decocherToutesPermissions: the checked set left
ResetAllPermissions(s, d, c) == c \ {p \in SetOf(Toutes(s)) : ById(d, p)}

\* The forEach of applyPermissionsForHabilitation: the checkboxes it checks
CheckedById(s, d, h) == {p \in SetOf(Table(s)[h]) : ById(d, p)}

\* The forEach of cocherPermissionsPourHabilitation, with its fallback
CheckedByIdOrName(s, d, h) ==
    {p \in SetOf(Table(s)[h]) : ById(d, p) \/ ByName(d, p)}

\* applyPermissionsForHabilitation(habilitation): the checked set left,
\* which is that of the reset when forEach throws
ApplyPermissionsForHabilitation(s, d, c, h) ==
    IF HasRole(s, h) /\ ~ForEachThrows(s, h)
    THEN ResetAllPermissions(s, d, c) \cup CheckedById(s, d, h)
    ELSE ResetAllPermissions(s, d, c)

\* cocherPermissionsPourHabilitation(habilitation): the checked set left,
\* which is that of the reset when forEach throws
CocherPermissionsPourHabilitation(s, d, c, h) ==
    IF h = "" \/ ~HasRole(s, h) \/ ForEachThrows(s, h)
    THEN ResetAllPermissions(s, d, c)
    ELSE ResetAllPermissions(s, d, c) \cup CheckedByIdOrName(s, d, h)

\* console.warn('Habilitation non reconnue:', ...) is reached
WarnsUnknown(s, h) == s = "auto" /\ h # "" /\ ~HasRole(s, h)

\* countActivePermissions() / the loop of updatePermissionsIndicateur
CountActivePermissions(s, d, c) ==
    Cardinality({i \in 1..Len(Toutes(s)) :
                    ById(d, Toutes(s)[i]) /\ Toutes(s)[i] \in c})

\* updatePermissionsIndicator / updatePermissionsIndicateur: the numbers
\* written into #permissions-count
UpdatePermissionsIndicator(s, d, c) ==
    <<CountActivePermissions(s, d, c), Len(Toutes(s))>>

\* handleHabilitationChange: the condition under which confirm() is shown
ConfirmShown(s, d, c, h) == CountActivePermissions(s, d, c) > 0 /\ h # ""

\* A handler that applies the role whatever the answer to confirm() is.
HandledIgnoringAnswer(s, d, c, h, answer) ==
    IF h # "" THEN ApplyPermissionsForHabilitation(s, d, c, h)
    ELSE ResetAllPermissions(s, d, c)

\* handleHabilitationChange: the checked set left, answer being what the
\* user answers to confirm() ("none" when the dialog is not shown)
HandledPermissions(s, d, c, h, answer) ==
    IF ConfirmShown(s, d, c, h)
    THEN IF answer = "yes" THEN ApplyPermissionsForHabilitation(s, d, c, h)
         ELSE c
    ELSE IF h # "" THEN ApplyPermissionsForHabilitation(s, d, c, h)
    ELSE ResetAllPermissions(s, d, c)

\* The record of the last handler, which returned.
Handler(op, h, answer, applied, warned) ==
    [op |-> op, role |-> h, answer |-> answer, applied |-> applied,
     warned |-> warned, threw |-> FALSE]

\* The record of a handler that threw a TypeError when threw holds.
Throwing(last, threw) == [last EXCEPT !.threw = threw]

\* initPermissionsAutoCheck applies the pre-filled role when the page loads
AppliesAtLoad(s, h, isCreation) == s = "auto" /\ h # "" /\ isCreation

\* DOMContentLoaded of the script: the page as the server rendered it, the
\* role applied at load by the first script of part_001, the first update
\* of the counter.
PmInit ==
    /\ script \in Scripts
    /\ dom \in [PagePermissions -> DomKinds]
    /\ creation \in BOOLEAN
    /\ habilitation \in SelectOptions
    /\ \E rendered \in SUBSET Present(dom) :
          checked = IF AppliesAtLoad(script, habilitation, creation)
                    THEN CocherPermissionsPourHabilitation(script, dom,
                                                           rendered, habilitation)
                    ELSE rendered
    /\ pmLast = IF AppliesAtLoad(script, habilitation, creation)
                THEN Throwing(Handler("cocherPermissionsPourHabilitation",
                                      habilitation, "none", TRUE,
                                      WarnsUnknown(script, habilitation)),
                              ForEachThrows(script, habilitation))
                ELSE Handler("load", habilitation, "none", FALSE, FALSE)
    /\ indicator = UpdatePermissionsIndicator(script, dom, checked)
    /\ DpIdle
    /\ DtIdle
    /\ RgIdle
    /\ StIdle
    /\ WaIdle
    /\ TnIdle
    /\ TwIdle
    /\ SvIdle
    /\ DrIdle

\* The 'change' listener of a permission checkbox is attached
HasChangeListener(s, d, p) == ById(d, p) /\ p \in SetOf(Toutes(s))

\* The user clicks the checkbox of permission p.
CheckboxChange(p) ==
    /\ p \in Present(dom)
    /\ checked' = IF p \in checked THEN checked \ {p} ELSE checked \cup {p}
    /\ indicator' = IF HasChangeListener(script, dom, p)
                    THEN UpdatePermissionsIndicator(script, dom, checked')
                    ELSE indicator
    /\ pmLast' = Handler("click", "", "none", FALSE, FALSE)
    /\ UNCHANGED <<script, dom, habilitation, creation>>
    /\ UNCHANGED notPm

\* The user picks role h in the select of the creation form: the 'change'
\* listener handleHabilitationChange runs.
HandleHabilitationChange(h, answer) ==
    /\ script \in {"manager", "mapping"}
    /\ creation
    /\ h # habilitation
    /\ (answer = "none") <=> ~ConfirmShown(script, dom, checked, h)
    /\ habilitation' = h
    /\ checked' = HandledPermissions(script, dom, checked, h, answer)
    /\ indicator' = IF answer = "no" THEN indicator
                    ELSE UpdatePermissionsIndicator(script, dom, checked')
    /\ pmLast' = Throwing(Handler("handleHabilitationChange", h, answer,
                                  h # "" /\ answer # "no", FALSE),
                          answer # "no" /\ ForEachThrows(script, h))
    /\ UNCHANGED <<script, dom, creation>>
    /\ UNCHANGED notPm

\* The same choice on a form that is not the creation form: no listener.
SelectWithoutListener(h) ==
    /\ script \in {"manager", "mapping"}
    /\ ~creation
    /\ h # habilitation
    /\ habilitation' = h
    /\ pmLast' = Handler("select", h, "none", FALSE, FALSE)
    /\ UNCHANGED <<script, dom, checked, creation, indicator>>
    /\ UNCHANGED notPm

\* The 'change' listener initPermissionsAutoCheck attaches to the select.
AutoCheckChange(h) ==
    /\ script = "auto"
    /\ h # habilitation
    /\ habilitation' = h
    /\ checked' = CocherPermissionsPourHabilitation(script, dom, checked, h)
    /\ pmLast' = Throwing(Handler("cocherPermissionsPourHabilitation", h,
                                  "none", TRUE, WarnsUnknown(script, h)),
                          ForEachThrows(script, h))
    /\ UNCHANGED <<script, dom, creation, indicator>>
    /\ UNCHANGED notPm

\* part_000: the permissions of each category of CATEGORIES_PERMISSIONS.
CATEGORIES_PERMISSIONS_manager ==
       "inventaires" :>
         <<"peut_saisir_inventaire_normal", "peut_saisir_inventaire_admin",
           "peut_programmer_inventaire", "peut_voir_programmation_active",
           "peut_desactiver_programmation",
           "peut_voir_programmation_desactivee",
           "peut_voir_liste_inventaires",
           "peut_voir_liste_inventaires_admin",
           "peut_voir_jours_impertinents", "peut_voir_stats_deperdition">>
    @@ "recettes-peage" :>
         <<"peut_saisir_recette_peage", "peut_voir_liste_recettes_peage",
           "peut_voir_stats_recettes_peage", "peut_importer_recettes_peage",
           "peut_voir_evolution_peage", "peut_voir_objectifs_peage">>
    @@ "quittances-peage" :>
         <<"peut_saisir_quittance_peage",
           "peut_voir_liste_quittances_peage",
           "peut_comptabiliser_quittances_peage">>
    @@ "pesage" :>
         <<"peut_voir_historique_vehicule_pesage", "peut_saisir_amende",
           "peut_saisir_pesee_jour", "peut_voir_objectifs_pesage",
           "peut_valider_paiement_amende", "peut_lister_amendes",
           "peut_saisir_quittance_pesage",
           "peut_comptabiliser_quittances_pesage",
           "peut_voir_liste_quittancements_pesage",
           "peut_voir_historique_pesees", "peut_voir_recettes_pesage",
           "peut_voir_stats_pesage">>
    @@ "stock-peage" :>
         <<"peut_charger_stock_peage", "peut_voir_liste_stocks_peage",
           "peut_voir_stock_date_peage", "peut_transferer_stock_peage",
           "peut_voir_tracabilite_tickets", "peut_voir_bordereaux_peage",
           "peut_voir_mon_stock_peage", "peut_voir_historique_stock_peage",
           "peut_simuler_commandes_peage">>
    @@ "gestion" :>
         <<"peut_gerer_postes", "peut_ajouter_poste",
           "peut_creer_poste_masse", "peut_gerer_utilisateurs",
           "peut_creer_utilisateur", "peut_voir_journal_audit">>
    @@ "rapports" :>
         <<"peut_voir_rapports_defaillants_peage",
           "peut_voir_rapports_defaillants_pesage",
           "peut_voir_rapport_inventaires",
           "peut_voir_classement_peage_rendement",
           "peut_voir_classement_station_pesage",
           "peut_voir_classement_peage_deperdition",
           "peut_voir_classement_agents_inventaire">>
    @@ "autres" :>
         <<"peut_parametrage_global", "peut_voir_compte_emploi",
           "peut_voir_pv_confrontation", "peut_authentifier_document",
           "peut_voir_tous_postes">>

\* The category ids a call may name: the categories of the two tables that
\* hold a permission of the modelled page, one that holds none, and one
\* that neither table has.
CategoryIds ==
    {cat \in DOMAIN CATEGORIES_PERMISSIONS_manager :
        SetOf(CATEGORIES_PERMISSIONS_manager[cat]) \cap PagePermissions # {}}
    \cup {cat \in DOMAIN TOUTES_PERMISSIONS_auto :
        SetOf(TOUTES_PERMISSIONS_auto[cat]) \cap PagePermissions # {}}
    \cup {"pesage", "inconnue"}
    \cup InheritedKeys

\* categoryId is a key of CATEGORIES_PERMISSIONS / of TOUTES_PERMISSIONS
IsCategory(s, cat) ==
    IF s = "manager" THEN cat \in DOMAIN CATEGORIES_PERMISSIONS_manager
    ELSE cat \in DOMAIN TOUTES_PERMISSIONS_auto

\* CATEGORIES_PERMISSIONS[categoryId] / TOUTES_PERMISSIONS[categorie] is
\* truthy
HasCategory(s, cat) == IsCategory(s, cat) \/ cat \in InheritedKeys

\* category.permissions.forEach(...) / permissions.forEach(...) throws a
\* TypeError: the value looked up is truthy and is not an entry of the table
CategoryThrows(s, cat) == HasCategory(s, cat) /\ ~IsCategory(s, cat)

\* The permissions of a category of the script
CategoryPermissions(s, cat) ==
    IF s = "manager" THEN SetOf(CATEGORIES_PERMISSIONS_manager[cat])
    ELSE SetOf(TOUTES_PERMISSIONS_auto[cat])

\* forEach(perm => { checkbox = getElementById('id_' + perm);
\* if (checkbox) checkbox.checked = cocher }): the checked set left
SetChecked(d, c, perms, cocher) ==
    IF cocher THEN c \cup {p \in perms : ById(d, p)}
    ELSE c \ {p \in perms : ById(d, p)}

\* The elements a call of the second script of part_001 may name: one per
\* permission of the modelled page, and one that holds them all.
Containers == {{p} : p \in PagePermissions} \cup {PagePermissions}

\* checkAllPermissions(), a global function of part_000
CheckAllPermissions ==
    /\ script = "manager"
    /\ checked' = SetChecked(dom, checked, SetOf(Toutes(script)), TRUE)
    /\ indicator' = UpdatePermissionsIndicator(script, dom, checked')
    /\ pmLast' = Handler("checkAllPermissions", "", "none", FALSE, FALSE)
    /\ UNCHANGED <<script, dom, habilitation, creation>>
    /\ UNCHANGED notPm

\* resetAllPermissions() called by itself, and decocherToutesPermissions()
\* through window.SUPPER_PERMISSIONS, which leaves the counter as it is.
ResetCall ==
    /\ checked' = ResetAllPermissions(script, dom, checked)
    /\ indicator' = IF script = "auto" THEN indicator
                    ELSE UpdatePermissionsIndicator(script, dom, checked')
    /\ pmLast' = Handler("resetAllPermissions", "", "none", FALSE, FALSE)
    /\ UNCHANGED <<script, dom, habilitation, creation>>
    /\ UNCHANGED notPm

\* checkAllInCategory(categoryId) / uncheckAllInCategory(categoryId) of
\* part_000, and toggleCategoriePermissions(categorie, cocher) of the first
\* script of part_001, which does not update the counter and warns about a
\* category it does not know. The forEach that throws has changed nothing
\* and the update of the counter that follows it is not reached.
CategoryCall(cat, cocher) ==
    /\ script \in {"manager", "auto"}
    /\ checked' = IF HasCategory(script, cat) /\ ~CategoryThrows(script, cat)
                  THEN SetChecked(dom, checked, CategoryPermissions(script, cat),
                                  cocher)
                  ELSE checked
    /\ indicator' = IF /\ script = "manager"
                       /\ HasCategory(script, cat)
                       /\ ~CategoryThrows(script, cat)
                    THEN UpdatePermissionsIndicator(script, dom, checked')
                    ELSE indicator
    /\ pmLast' = Throwing(Handler("category", "", "none", FALSE,
                                  script = "auto" /\ ~HasCategory(script, cat)),
                          CategoryThrows(script, cat))
    /\ UNCHANGED <<script, dom, habilitation, creation>>
    /\ UNCHANGED notPm

\* checkAllInCategory(categoryId) / uncheckAllInCategory(categoryId) of the
\* second script of part_001: every checkbox inside the element that has
\* the id; boxes are the permissions whose checkbox, when the page has it,
\* is inside that element.
ContainerCall(boxes, cocher) ==
    /\ script = "mapping"
    /\ checked' = IF cocher THEN checked \cup (boxes \cap Present(dom))
                  ELSE checked \ boxes
    /\ indicator' = UpdatePermissionsIndicator(script, dom, checked')
    /\ pmLast' = Handler("category", "", "none", FALSE, FALSE)
    /\ UNCHANGED <<script, dom, habilitation, creation>>
    /\ UNCHANGED notPm

\* updatePermissionsIndicator() / updatePermissionsIndicateur() called by
\* itself
IndicatorCall ==
    /\ indicator' = UpdatePermissionsIndicator(script, dom, checked)
    /\ pmLast' = Handler("updatePermissionsIndicator", "", "none", FALSE, FALSE)
    /\ UNCHANGED <<script, dom, checked, habilitation, creation>>
    /\ UNCHANGED notPm

\* applyPermissionsForHabilitation(h) called by itself (a global function of
\* part_000 and of the second script of part_001): the boxes of the role and
\* the counter are set, the select keeps its value. When forEach throws, the
\* counter is that of the reset, which has updated it.
ApplyCall(h) ==
    /\ script \in {"manager", "mapping"}
    /\ checked' = ApplyPermissionsForHabilitation(script, dom, checked, h)
    /\ indicator' = UpdatePermissionsIndicator(script, dom, checked')
    /\ pmLast' = Throwing(Handler("applyPermissionsForHabilitation", h,
                                  "none", TRUE, FALSE),
                          ForEachThrows(script, h))
    /\ UNCHANGED <<script, dom, habilitation, creation>>
    /\ UNCHANGED notPm

\* handleHabilitationChange() called by itself, on any form: it reads the
\* role the select shows.
HandleCall(answer) ==
    /\ script \in {"manager", "mapping"}
    /\ (answer = "none") <=> ~ConfirmShown(script, dom, checked, habilitation)
    /\ checked' = HandledPermissions(script, dom, checked, habilitation, answer)
    /\ indicator' = IF answer = "no" THEN indicator
                    ELSE UpdatePermissionsIndicator(script, dom, checked')
    /\ pmLast' = Throwing(Handler("handleHabilitationChange", habilitation,
                                  answer, habilitation # "" /\ answer # "no",
                                  FALSE),
                          answer # "no" /\ ForEachThrows(script, habilitation))
    /\ UNCHANGED <<script, dom, habilitation, creation>>
    /\ UNCHANGED notPm

\* window.SUPPER_PERMISSIONS.cocherPermissionsPourHabilitation(h) called by
\* itself: the boxes of the role are set, the select and the counter keep
\* their values.
CocherCall(h) ==
    /\ script = "auto"
    /\ checked' = CocherPermissionsPourHabilitation(script, dom, checked, h)
    /\ pmLast' = Throwing(Handler("cocherPermissionsPourHabilitation", h,
                                  "none", TRUE, WarnsUnknown(script, h)),
                          ForEachThrows(script, h))
    /\ UNCHANGED <<script, dom, habilitation, creation, indicator>>
    /\ UNCHANGED notPm

PmNext ==
    \/ \E p \in PagePermissions : CheckboxChange(p)
    \/ \E h \in SelectOptions, answer \in {"none", "yes", "no"} :
          HandleHabilitationChange(h, answer)
    \/ \E h \in SelectOptions : SelectWithoutListener(h)
    \/ \E h \in SelectOptions : AutoCheckChange(h)
    \/ CheckAllPermissions
    \/ ResetCall
    \/ \E cat \in CategoryIds, cocher \in BOOLEAN : CategoryCall(cat, cocher)
    \/ \E boxes \in Containers, cocher \in BOOLEAN :
          ContainerCall(boxes, cocher)
    \/ IndicatorCall
    \/ \E h \in CallRoles : ApplyCall(h)
    \/ \E answer \in {"none", "yes", "no"} : HandleCall(answer)
    \/ \E h \in CallRoles : CocherCall(h)

\* The permission form alone, under each of the three copies of the script.
SpecPerm == PmInit /\ [][PmNext]_vars

---------------------------------------------------------------------------
(* Claims about the permission auto-fill *)

\* The permission checkboxes of the page, for the script it loads: the
\* checkboxes of the permissions of the full list that the lookups of that
\* script reach (by id; by name too where the script falls back on it).
PermissionCheckboxes(s, d) ==
    {p \in SetOf(Toutes(s)) : ById(d, p) \/ (s = "auto" /\ ByName(d, p))}

\* C3: once a role present in the table has been applied, the permission
\* checkboxes that are checked are exactly those of the list of that role;
\* every other permission checkbox is unchecked.
C3_RoleLeavesExactlyItsList ==
    (pmLast.applied /\ IsRole(script, pmLast.role)) =>
        \A p \in PermissionCheckboxes(script, dom) :
            p \in checked <=> p \in SetOf(Table(script)[pmLast.role])

\* C8: when handleHabilitationChange runs while a permission checkbox is
\* checked and the role picked is not empty, the user is asked to confirm,
\* and when the user declines no checkbox changes.
C8_ConfirmBeforeOverwrite ==
    [][(/\ pmLast'.op = "handleHabilitationChange"
        /\ checked \cap PermissionCheckboxes(script, dom) # {}
        /\ habilitation' # "")
       => /\ pmLast'.answer \in {"yes", "no"}
          /\ pmLast'.answer = "no" => checked' = checked]_vars

\* A handler has declined to overwrite checked boxes.
C8_Witness ==
    /\ pmLast.op = "handleHabilitationChange"
    /\ pmLast.answer = "no"
    /\ pmLast.role # ""
    /\ checked \cap PermissionCheckboxes(script, dom) # {}

\* The step applies a role id that is not a key of the table of the script.
AppliesUnknownRole ==
    /\ pmLast'.applied
    /\ pmLast'.role # ""
    /\ pmLast'.role \notin DOMAIN Table(script)

\* C9 as stated: applying a role id that is not a key of the table leaves
\* every checkbox in the state it had.
C9_UnknownRoleIsNoOp ==
    [][AppliesUnknownRole => checked' = checked]_vars

\* C9, amended: applying a role id that is not a key of the table unchecks
\* every checkbox of the full list that has its id and changes no other
\* checkbox; when the id names nothing in the table, the first script of
\* part_001 emits the warning, the two other scripts emit none, and no
\* script throws; when the id is a name the table inherits ('constructor'),
\* no script warns and every script throws a TypeError.
C9_UnknownRoleClearsAll ==
    [][AppliesUnknownRole =>
          /\ checked' = checked \ {p \in SetOf(Toutes(script)) : ById(dom, p)}
          /\ IF pmLast'.role \in InheritedKeys
             THEN ~pmLast'.warned /\ pmLast'.threw
             ELSE (pmLast'.warned <=> script = "auto") /\ ~pmLast'.threw]_vars

\* The first script of part_001 has warned about a role id that names
\* nothing in its table, on a page whose counter still shows a box that
\* was checked: no box with an id is checked any more, and a box that has
\* its name only is checked as it was.
C9_Witness ==
    /\ script = "auto"
    /\ pmLast.op = "cocherPermissionsPourHabilitation"
    /\ pmLast.role \notin DOMAIN Table(script) \cup InheritedKeys \cup {""}
    /\ pmLast.warned
    /\ indicator[1] > 0
    /\ \A p \in checked : ~ById(dom, p)
    /\ \E p \in checked : ByName(dom, p)

\* C10: on a page whose checkboxes all have their id, the counter shows the
\* number of permission checkboxes that are checked and the size of the
\* full list, after any checkbox change and any role application.
C10_CounterMatchesCheckboxes ==
    (\A p \in PagePermissions : dom[p] # "name") =>
        indicator = <<Cardinality(checked \cap PermissionCheckboxes(script, dom)),
                      Len(Toutes(script))>>

---------------------------------------------------------------------------
(* Date input: validation and day-status check (calendrier-widget.js) *)

\* A calendar date is <<year, month, day>>; the empty value of the input
\* is <<>>. An ISO string 'YYYY-MM-DD' is modelled by the date it names.
NoDate == <<>>

\* The day after / the day before a date.
NextDay(t) ==
    IF t[3] < DaysInMonth(t[1], t[2]) THEN <<t[1], t[2], t[3] + 1>>
    ELSE IF t[2] < 12 THEN <<t[1], t[2] + 1, 1>>
    ELSE <<t[1] + 1, 1, 1>>

PrevDay(t) ==
    IF t[3] > 1 THEN <<t[1], t[2], t[3] - 1>>
    ELSE IF t[2] > 1 THEN <<t[1], t[2] - 1, DaysInMonth(t[1], t[2] - 1)>>
    ELSE <<t[1] - 1, 12, 31>>

\* value < other on two 'YYYY-MM-DD' strings: the comparison of strings
\* compares the year, then the month, then the day.
StringLess(a, b) ==
    \/ a[1] < b[1]
    \/ a[1] = b[1] /\ a[2] < b[2]
    \/ a[1] = b[1] /\ a[2] = b[2] /\ a[3] < b[3]

\* date.setFullYear(y) on a local date: a day the month of year y does not
\* have rolls over into the next month (29 February -> 1 March).
SetFullYear(t, y) ==
    IF t[3] <= DaysInMonth(y, t[2]) THEN <<y, t[2], t[3]>>
    ELSE <<y, t[2] + 1, t[3] - DaysInMonth(y, t[2])>>

\* date.toISOString().split('T')[0]: the UTC date of a local instant, the
\* local date being `ahead` days ahead of the UTC date (-1, 0 or 1).
ToISODate(local, ahead) ==
    IF ahead = 1 THEN PrevDay(local)
    ELSE IF ahead = -1 THEN NextDay(local)
    ELSE local

\* const today = new Date().toISOString().split('T')[0]
TodayStr(now, ahead) == ToISODate(now, ahead)

\* pastLimit.setFullYear(pastLimit.getFullYear() - 1); pastLimitStr = ...
PastLimitStr(now, ahead) == ToISODate(SetFullYear(now, now[1] - 1), ahead)

\* validateDate(input): the validation class and the inline message left,
\* err being the message displayed before the call.
ValidateDate(v, err, now, ahead) ==
    IF v = NoDate THEN [classe |-> "none", message |-> err]
    ELSE IF StringLess(TodayStr(now, ahead), v)
    THEN [classe |-> "is-invalid", message |-> "futur"]
    ELSE IF StringLess(v, PastLimitStr(now, ahead))
    THEN [classe |-> "is-invalid", message |-> "trop ancienne"]
    ELSE [classe |-> "is-valid", message |-> "none"]

\* The answers the check-day-status request can get: whether fetch resolves,
\* response.ok, whether the body is JSON, data.success, and data.data
\* (its two flags, or no data at all).
Reply(fetch, ok, json, success, data, inv, rec) ==
    [fetch |-> fetch, ok |-> ok, json |-> json, success |-> success,
     data |-> data, inventaire_ouvert |-> inv, recette_ouvert |-> rec]

NetworkError  == Reply("rejected", FALSE, FALSE, FALSE, FALSE, FALSE, FALSE)
HttpError     == Reply("resolved", FALSE, TRUE, FALSE, FALSE, FALSE, FALSE)
BadJson       == Reply("resolved", TRUE, FALSE, FALSE, FALSE, FALSE, FALSE)
SuccessFalse  == Reply("resolved", TRUE, TRUE, FALSE, FALSE, FALSE, FALSE)
SuccessNoData == Reply("resolved", TRUE, TRUE, TRUE, FALSE, FALSE, FALSE)
Success(inv, rec) == Reply("resolved", TRUE, TRUE, TRUE, TRUE, inv, rec)

Replies ==
    {NetworkError, HttpError, BadJson, SuccessFalse, SuccessNoData}
        \cup {Success(i, r) : i \in BOOLEAN, r \in BOOLEAN}

\* The request has failed: network error, non-OK status, success = false
\* (or a body that is not JSON).
Failed(reply) ==
    reply.fetch = "rejected" \/ ~reply.ok \/ ~reply.json \/ ~reply.success

\* A settled promise: its state and, when fulfilled with status data, the
\* data (statusData.data = FALSE stands for undefined).
Promise(state, data, inv, rec, degrade) ==
    [state |-> state, data |-> data, inventaire_ouvert |-> inv,
     recette_ouvert |-> rec, mode_degrade |-> degrade]

Rejected == Promise("rejected", FALSE, FALSE, FALSE, FALSE)

\* fetch(...).then(response => ...).then(data => ...): rejected by a network
\* error, by !response.ok, by response.json(), by success = false
ThenChain(reply) ==
    IF reply.fetch = "rejected" THEN Rejected
    ELSE IF ~reply.ok THEN Rejected
    ELSE IF ~reply.json THEN Rejected
    ELSE IF ~reply.success THEN Rejected
    ELSE Promise("fulfilled", reply.data, reply.inventaire_ouvert,
                 reply.recette_ouvert, FALSE)

\* A chain without its .catch: the rejection goes through.
NoCatch(p) == p

\* .catch(error => ({inventaire_ouvert: true, recette_ouvert: true,
\* mode_degrade: true})) of checkDayStatusAPI
CatchDegrade(p) ==
    IF p.state = "rejected" THEN Promise("fulfilled", TRUE, TRUE, TRUE, TRUE)
    ELSE p

\* checkDayStatusAPI(date, posteId): the promise it returns, once settled
CheckDayStatusAPI(reply) == CatchDegrade(ThenChain(reply))

\* No banner .status-jour-display next to the input.
NoBanner == [shown |-> FALSE, classe |-> "none", texte |-> "none",
             pour |-> NoDate]

\* afficherStatutJour(dateInput, statusData): the banner left; `pour` records
\* the date the displayed status was asked for.
AfficherStatutJour(statusData, date) ==
    IF ~statusData.data THEN NoBanner
    ELSE IF statusData.inventaire_ouvert /\ statusData.recette_ouvert
    THEN [shown |-> TRUE, classe |-> "ouvert",
          texte |-> "inventaires et recettes", pour |-> date]
    ELSE IF statusData.recette_ouvert
    THEN [shown |-> TRUE, classe |-> "partiellement-ouvert",
          texte |-> "recettes uniquement", pour |-> date]
    ELSE IF statusData.inventaire_ouvert
    THEN [shown |-> TRUE, classe |-> "partiellement-ouvert",
          texte |-> "inventaires uniquement", pour |-> date]
    ELSE [shown |-> TRUE, classe |-> "ferme", texte |-> "ferme", pour |-> date]

\* The local dates the clock of the browser may show: a 29 February, and the
\* first days of March of the following year.
Todays ==
    {<<LeapYear, 2, 29>>} \cup {<<LeapYear + 1, 3, d>> : d \in 1..NumTodays}

\* By how many days the local date is ahead of the UTC date: 1 east of
\* Greenwich before the UTC day has begun, -1 west of it after it has ended.
DayAheads == {-1, 0, 1}

\* One year before a date, on the calendar (29 February -> 28 February), and
\* the day before that.
OneYearBefore(t) ==
    IF t[3] <= DaysInMonth(t[1] - 1, t[2]) THEN <<t[1] - 1, t[2], t[3]>>
    ELSE <<t[1] - 1, t[2], DaysInMonth(t[1] - 1, t[2])>>

OneYearAndOneDayBefore(t) == PrevDay(OneYearBefore(t))

\* The values the user or the server may put in the input.
Values(now) ==
    {NoDate, now, NextDay(now), OneYearBefore(now), OneYearAndOneDayBefore(now)}

\* The record of the last step of the date input.
DtCall(op, date, sent, failed) ==
    [op |-> op, date |-> date, issued |-> sent, failed |-> failed]

\* verifierStatutJour(dateInput) issues a request
Issues(v, form) == v # NoDate /\ form

\* A check that aborts the requests in flight before it issues its own.
VerifierAbortingOthers(v, form, reqs, n) ==
    IF Issues(v, form) THEN {[id |-> n + 1, date |-> v]} ELSE reqs

\* verifierStatutJour(dateInput): the requests in flight after the call
VerifierStatutJour(v, form, reqs, n) ==
    IF Issues(v, form) THEN reqs \cup {[id |-> n + 1, date |-> v]} ELSE reqs

\* The interval of the sweep and the age beyond which it removes a message,
\* in milliseconds.
SweepInterval == 5000
MaxErrorAge == 10000

\* A message the sweep has not stamped yet (no data-timestamp).
NoStamp == -1

\* validateDate on a non-empty value removes the message or replaces it by a
\* new element, which has no stamp; on an empty value it leaves the message.
StampAfter(v, age) == IF v = NoDate THEN age ELSE NoStamp

\* Date.now() - timestamp at the sweep that follows `age` sweeps since the
\* stamp was set.
AgeAtSweep(age, late) == (age + 1) * SweepInterval + (IF late THEN 1 ELSE 0)

\* if (error.dataset.timestamp) { if (age > 10000) error.remove(); }
SweepRemoves(age, late) == age # NoStamp /\ AgeAtSweep(age, late) > MaxErrorAge

\* DOMContentLoaded: the input as the server rendered it; when it has a
\* value, initStatusJourVerification has set its 500 ms timer.
DtInit ==
    /\ nowLocal \in Todays
    /\ dayAhead \in DayAheads
    /\ inForm \in BOOLEAN
    /\ value \in Values(nowLocal)
    /\ validity = "none"
    /\ dateError = "none"
    /\ errorAge = NoStamp
    /\ dirty = FALSE
    /\ loadTimer = (value # NoDate)
    /\ pending = {}
    /\ issued = 0
    /\ banner = NoBanner
    /\ bannerCount = 0
    /\ posteTimers = 0
    /\ listeners = 1
    /\ unhandled = FALSE
    /\ dtLast = DtCall("load", NoDate, FALSE, FALSE)
    /\ DpIdle
    /\ PmIdle
    /\ RgIdle
    /\ StIdle
    /\ WaIdle
    /\ TnIdle
    /\ TwIdle
    /\ SvIdle
    /\ DrIdle

\* The user edits the field: the value changes and the 'input' listener
\* validates it; the 'change' event follows (ChangeEvent).
InputEvent(v) ==
    /\ v \in Values(nowLocal)
    /\ v # value
    /\ value' = v
    /\ validity' = ValidateDate(v, dateError, nowLocal, dayAhead).classe
    /\ dateError' = ValidateDate(v, dateError, nowLocal, dayAhead).message
    /\ errorAge' = StampAfter(v, errorAge)
    /\ dirty' = TRUE
    /\ dtLast' = DtCall("input", v, FALSE, FALSE)
    /\ UNCHANGED <<nowLocal, dayAhead, inForm, loadTimer, pending, issued,
                   banner, bannerCount,
                   unhandled, posteTimers, listeners>>
    /\ UNCHANGED notDt

\* The 'change' listeners run one after the other: verifierStatutJour k times
RECURSIVE VerifierTimes(_, _, _, _, _)
VerifierTimes(k, v, form, reqs, n) ==
    IF k = 0 THEN reqs
    ELSE VerifierStatutJour(v, form, VerifierTimes(k - 1, v, form, reqs, n),
                            n + k - 1)

\* The 'change' listeners, fired once the edited value is committed: one per
\* call of initCalendrierWidgets.
ChangeEvent ==
    /\ dirty
    /\ issued + posteTimers + listeners <= MaxRequests
    /\ dirty' = FALSE
    /\ pending' = VerifierTimes(listeners, value, inForm, pending, issued)
    /\ issued' = IF Issues(value, inForm) THEN issued + listeners ELSE issued
    /\ dtLast' = DtCall("change", value, Issues(value, inForm), FALSE)
    /\ UNCHANGED <<nowLocal, dayAhead, inForm, value, validity, dateError, errorAge,
                   loadTimer, banner, bannerCount,
                   unhandled, posteTimers, listeners>>
    /\ UNCHANGED notDt

\* Ctrl+T or Meta+T in the focused input: the value becomes today's ISO date
\* and a 'change' event is dispatched; no 'input' event, hence no
\* validation. An edit of the user that no 'change' event has followed yet
\* stays uncommitted.
CtrlT ==
    /\ issued + posteTimers + listeners <= MaxRequests
    /\ value' = TodayStr(nowLocal, dayAhead)
    /\ pending' = VerifierTimes(listeners, value', inForm, pending, issued)
    /\ issued' = IF Issues(value', inForm) THEN issued + listeners ELSE issued
    /\ dtLast' = DtCall("ctrl-t", value', Issues(value', inForm), FALSE)
    /\ UNCHANGED <<nowLocal, dayAhead, inForm, validity, dateError, errorAge, dirty,
                   loadTimer, banner, bannerCount,
                   unhandled, posteTimers, listeners>>
    /\ UNCHANGED notDt

\* The Enter key (keydown listener of the document, bound when the script is
\* read), the 'blur' listener initFocusHandlers binds 200 ms after the load,
\* and window.CalendrierWidget.validate: validateDate on the value the input
\* holds, committed by a 'change' event or not yet.
Blur ==
    /\ validity' = ValidateDate(value, dateError, nowLocal, dayAhead).classe
    /\ dateError' = ValidateDate(value, dateError, nowLocal, dayAhead).message
    /\ errorAge' = StampAfter(value, errorAge)
    /\ dtLast' = DtCall("blur", value, FALSE, FALSE)
    /\ UNCHANGED <<nowLocal, dayAhead, inForm, value, dirty, loadTimer,
                   pending, issued, banner, bannerCount,
                   unhandled, posteTimers, listeners>>
    /\ UNCHANGED notDt

\* The timer of initStatusJourVerification (page load) fires.
LoadTimer ==
    /\ loadTimer
    /\ issued + posteTimers < MaxRequests
    /\ loadTimer' = FALSE
    /\ pending' = VerifierStatutJour(value, inForm, pending, issued)
    /\ issued' = IF Issues(value, inForm) THEN issued + 1 ELSE issued
    /\ dtLast' = DtCall("load-timer", value, Issues(value, inForm), FALSE)
    /\ UNCHANGED <<nowLocal, dayAhead, inForm, value, validity, dateError, errorAge,
                   dirty, banner, bannerCount,
                   unhandled, posteTimers, listeners>>
    /\ UNCHANGED notDt

\* The 'change' listener of select[name="poste"]: if (input.value)
\* setTimeout(() => verifierStatutJour(input), 100).
PosteChange ==
    /\ inForm
    /\ value # NoDate
    /\ issued + posteTimers < MaxRequests
    /\ posteTimers' = posteTimers + 1
    /\ dtLast' = DtCall("poste", value, FALSE, FALSE)
    /\ UNCHANGED <<nowLocal, dayAhead, inForm, value, validity, dateError, errorAge,
                   dirty, loadTimer, pending, issued, banner, bannerCount,
                   unhandled, listeners>>
    /\ UNCHANGED notDt

\* A 100 ms timer of the poste listener fires: verifierStatutJour reads the
\* value the input holds by then.
PosteTimer ==
    /\ posteTimers > 0
    /\ posteTimers' = posteTimers - 1
    /\ pending' = VerifierStatutJour(value, inForm, pending, issued)
    /\ issued' = IF Issues(value, inForm) THEN issued + 1 ELSE issued
    /\ dtLast' = DtCall("poste-timer", value, Issues(value, inForm), FALSE)
    /\ UNCHANGED <<nowLocal, dayAhead, inForm, value, validity, dateError, errorAge,
                   dirty, loadTimer, banner, bannerCount, unhandled, listeners>>
    /\ UNCHANGED notDt

\* window.CalendrierWidget.checkStatus(input): verifierStatutJour, called by
\* another script of the page, no timer being needed.
CheckStatus ==
    /\ issued + posteTimers < MaxRequests
    /\ pending' = VerifierStatutJour(value, inForm, pending, issued)
    /\ issued' = IF Issues(value, inForm) THEN issued + 1 ELSE issued
    /\ dtLast' = DtCall("checkStatus", value, Issues(value, inForm), FALSE)
    /\ UNCHANGED <<nowLocal, dayAhead, inForm, value, validity, dateError, errorAge,
                   dirty, loadTimer, banner, bannerCount, unhandled, listeners,
                   posteTimers>>
    /\ UNCHANGED notDt

\* How many times a page may call initCalendrierWidgets.
MaxInits == 2

\* window.CalendrierWidget.init(): initCalendrierWidgets binds a 'change'
\* and an 'input' listener more to the input.
InitAgain ==
    /\ listeners < MaxInits
    /\ listeners' = listeners + 1
    /\ dtLast' = DtCall("init", value, FALSE, FALSE)
    /\ UNCHANGED <<nowLocal, dayAhead, inForm, value, validity, dateError, errorAge,
                   dirty, loadTimer, pending, issued, banner, bannerCount,
                   unhandled, posteTimers>>
    /\ UNCHANGED notDt

\* The messages a caller of showError may pass: those of validateDate and
\* another one.
ErrorMessages == {"futur", "trop ancienne", "autre"}

\* window.CalendrierWidget.showError(input, message): showDateError replaces
\* the message displayed; the classes of the input stay.
ShowError(message) ==
    /\ dateError' = message
    /\ errorAge' = NoStamp
    /\ dtLast' = DtCall("showError", value, FALSE, FALSE)
    /\ UNCHANGED <<nowLocal, dayAhead, inForm, value, validity, dirty,
                   loadTimer, pending, issued, banner, bannerCount,
                   unhandled, posteTimers, listeners>>
    /\ UNCHANGED notDt

\* window.CalendrierWidget.clearError(input): clearDateError removes the
\* message displayed.
ClearError ==
    /\ dateError # "none"
    /\ dateError' = "none"
    /\ errorAge' = NoStamp
    /\ dtLast' = DtCall("clearError", value, FALSE, FALSE)
    /\ UNCHANGED <<nowLocal, dayAhead, inForm, value, validity, dirty,
                   loadTimer, pending, issued, banner, bannerCount,
                   unhandled, posteTimers, listeners>>
    /\ UNCHANGED notDt

\* .then(data => afficherStatutJour(dateInput, data)).catch(console.warn):
\* the banner left once the promise p has settled
Afterwards(p, date, old) ==
    IF p.state = "fulfilled" THEN AfficherStatutJour(p, date) ELSE old

\* An afficherStatutJour that leaves the existing banner in place.
KeepExisting(n) == n

\* existingStatus = parentNode.querySelector('.status-jour-display');
\* if (existingStatus) existingStatus.remove(): the first banner goes.
RemoveExisting(n) == IF n > 0 THEN n - 1 ELSE n

\* The number of banners left by afficherStatutJour: one is inserted unless
\* statusData is missing.
BannersAfter(statusData, n) ==
    RemoveExisting(n) + (IF statusData.data THEN 1 ELSE 0)

\* The number of banners once the promise p has settled
CountAfterwards(p, n) ==
    IF p.state = "fulfilled" THEN BannersAfter(p, n) ELSE n

\* The promise chain of one request settles: checkDayStatusAPI resolves and
\* the .then of verifierStatutJour draws the banner.
Resolve(r, reply) ==
    /\ r \in pending
    /\ pending' = pending \ {r}
    /\ banner' = Afterwards(CheckDayStatusAPI(reply), r.date, banner)
    /\ bannerCount' = CountAfterwards(CheckDayStatusAPI(reply), bannerCount)
    /\ unhandled' = FALSE  \* the .catch of verifierStatutJour ends the chain
    /\ dtLast' = DtCall("resolve", r.date, FALSE, Failed(reply))
    /\ UNCHANGED <<nowLocal, dayAhead, inForm, value, validity, dateError, errorAge,
                   dirty, loadTimer, issued, posteTimers, listeners>>
    /\ UNCHANGED notDt

\* The callback of setInterval(..., 5000): a message without a stamp gets
\* one, a message stamped more than ten seconds ago is removed; late tells
\* that the timer has fired later than the multiple of its interval.
Sweep(late) ==
    /\ dateError # "none"
    /\ dateError' = IF SweepRemoves(errorAge, late) THEN "none" ELSE dateError
    /\ errorAge' = IF SweepRemoves(errorAge, late) THEN NoStamp ELSE errorAge + 1
    /\ dtLast' = DtCall("sweep", value, FALSE, FALSE)
    /\ UNCHANGED <<nowLocal, dayAhead, inForm, value, validity, dirty,
                   loadTimer, pending, issued, banner, bannerCount,
                   unhandled, posteTimers, listeners>>
    /\ UNCHANGED notDt

DtNext ==
    \/ \E v \in Values(nowLocal) : InputEvent(v)
    \/ ChangeEvent
    \/ CtrlT
    \/ Blur
    \/ LoadTimer
    \/ PosteChange
    \/ PosteTimer
    \/ CheckStatus
    \/ \E r \in pending, reply \in Replies : Resolve(r, reply)

\* The date input and its requests, over a stretch of time in which the
\* sweep of the error messages does not run and no other script calls
\* init, showError or clearError of window.CalendrierWidget (SpecStatus and
\* SpecValidation have these calls).
SpecDate == DtInit /\ [][DtNext]_vars

\* The day-status checks of a date input that other scripts of the page may
\* bind again through window.CalendrierWidget.init; the clock, which the
\* checks do not read, is fixed.
DtInitStatus == DtInit /\ nowLocal = <<LeapYear, 2, 29>> /\ dayAhead = 0

DtNextStatus ==
    \/ DtNext
    \/ InitAgain

SpecStatus == DtInitStatus /\ [][DtNextStatus]_vars

\* A bound date input outside a form (verifierStatutJour sends nothing), its
\* validation and the periodic sweep of the error messages.
DtInitValidation == DtInit /\ ~inForm

DtNextValidation ==
    \/ \E v \in Values(nowLocal) : InputEvent(v)
    \/ ChangeEvent
    \/ Blur
    \/ CheckStatus
    \/ \E message \in ErrorMessages : ShowError(message)
    \/ ClearError
    \/ \E late \in BOOLEAN : Sweep(late)

SpecValidation == DtInitValidation /\ [][DtNextValidation]_vars

---------------------------------------------------------------------------
(* Claims about the date input *)

\* C4: when the 'change' listener issues a check-day-status request for a
\* value that is one year and one day before today (the local date of the
\* user), the input already carries the class is-invalid.
C4_InvalidBeforeRequest ==
    (/\ dtLast.op = "change"
     /\ dtLast.issued
     /\ dtLast.date = OneYearAndOneDayBefore(nowLocal))
    => validity = "is-invalid"

\* C5: when the request that has just settled had failed, the banner of the
\* input shows the day open for inventories and revenues, for the date of
\* that request, and nothing is left unhandled.
C5_FailureShowsOpenBanner ==
    (dtLast.op = "resolve" /\ dtLast.failed) =>
        /\ banner.shown
        /\ banner.classe = "ouvert"
        /\ banner.texte = "inventaires et recettes"
        /\ banner.pour = dtLast.date
        /\ ~unhandled

\* A failed request has settled.
C5_Witness ==
    /\ dtLast.op = "resolve"
    /\ dtLast.failed
    /\ banner.shown

\* C6: no step but the settling of a request removes a request in flight
\* (none is cancelled), and a request that settles with status data draws
\* the banner of its own date, whatever the input holds by then (none is
\* sequenced).
C6_NoCancelNoSequencing ==
    [][/\ dtLast'.op # "resolve" => pending \subseteq pending'
       /\ (dtLast'.op = "resolve" /\ banner'.shown) =>
              banner'.pour = dtLast'.date]_vars

\* Every request has settled, the value B of the input has been committed
\* (so a request for B was issued after those for any other date), and the
\* banner displayed is the status of another date A: the response for A
\* came last.
C6_Witness ==
    /\ dtLast.op = "resolve"
    /\ pending = {}
    /\ ~dirty
    /\ ~loadTimer
    /\ value # NoDate
    /\ banner.shown
    /\ banner.pour # value

---------------------------------------------------------------------------
(* Region -> department select, AJAX variant (part_000:1-41) *)

\* Region ids of select#id_region; 0 stands for the empty value (no region).
NoRegion == 0
Regions == 1..NumRegions

\* data.departements as the endpoint returns it for a region: the ids of its
\* departments, in order.
DepartementsOf(r) == [k \in 1..NumDepartements |-> 10 * r + k]

\* How a request for the departments may end: with the list, with a network
\* or JSON error, or with a JSON body that has no list `departements`.
RegionReplies == {"ok", "error", "no_list"}

\* The options of the department select after the placeholder, once the
\* .then / .catch of a request for region r has run
OptionsAfter(reply, r, old) ==
    IF reply = "ok" THEN DepartementsOf(r)
    ELSE IF reply = "no_list" THEN <<>>
    ELSE old

\* fetch(`/api/departements/?region=${regionId}`): the requests in flight
FetchDepartements(r, reqs, n) == reqs \cup {[id |-> n + 1, region |-> r]}

\* DOMContentLoaded: the selects as the server rendered them; when a region is
\* already selected updateDepartements() has issued its request.
RgInit ==
    /\ region \in {NoRegion} \cup Regions
    /\ deptOptions \in {<<>>} \cup {DepartementsOf(r) : r \in Regions}
    /\ deptDisabled = FALSE
    /\ rgPending = IF region = NoRegion THEN {}
                   ELSE FetchDepartements(region, {}, 0)
    /\ rgIssued = IF region = NoRegion THEN 0 ELSE 1
    /\ rgFailed = FALSE
    /\ rgSelected = FALSE
    /\ DpIdle
    /\ PmIdle
    /\ DtIdle
    /\ StIdle
    /\ WaIdle
    /\ TnIdle
    /\ TwIdle
    /\ SvIdle
    /\ DrIdle

\* 'change' listener of the region select: updateDepartements()
RegionChange(r) ==
    /\ r # region
    /\ region' = r
    /\ rgSelected' = TRUE
    /\ IF r = NoRegion
       THEN /\ deptOptions' = <<>>
            /\ deptDisabled' = TRUE
            /\ UNCHANGED <<rgPending, rgIssued>>
       ELSE /\ rgIssued < MaxFetches
            /\ rgPending' = FetchDepartements(r, rgPending, rgIssued)
            /\ rgIssued' = rgIssued + 1
            /\ UNCHANGED <<deptOptions, deptDisabled>>
    /\ UNCHANGED rgFailed
    /\ UNCHANGED notRg

\* The promise of one request settles: its .then or its .catch runs.
DepartementsResponse(q, reply) ==
    /\ q \in rgPending
    /\ rgPending' = rgPending \ {q}
    /\ deptOptions' = OptionsAfter(reply, q.region, deptOptions)
    /\ deptDisabled' = (reply # "ok")
    /\ rgFailed' = (rgFailed \/ reply # "ok")
    /\ UNCHANGED <<region, rgIssued, rgSelected>>
    /\ UNCHANGED notRg

RgNext ==
    \/ \E r \in {NoRegion} \cup Regions : RegionChange(r)
    \/ \E q \in rgPending, reply \in RegionReplies :
          DepartementsResponse(q, reply)

\* The two selects alone.
SpecRegion == RgInit /\ [][RgNext]_vars

---------------------------------------------------------------------------
(* Claims about the AJAX region -> department select *)

\* C7: after at least one region selection, once every request issued has
\* resolved successfully, the department select holds the placeholder plus
\* the departments of the region now selected and is enabled, or holds the
\* placeholder only and is disabled when no region is selected.
C7_AjaxSelectMatchesRegion ==
    (rgSelected /\ rgPending = {} /\ ~rgFailed) =>
        IF region = NoRegion
        THEN deptDisabled /\ deptOptions = <<>>
        ELSE ~deptDisabled /\ deptOptions = DepartementsOf(region)

---------------------------------------------------------------------------
(* Region -> department select, the three static variants *)

\* part_002: DEPARTEMENTS_CAMEROUN
DEPARTEMENTS_CAMEROUN ==
    ("adamaoua" :> <<"Djérem", "Faro-et-Déo", "Mayo-Banyo", "Mbéré", "Vina">>)
    @@ ("centre" :> <<"Haute-Sanaga", "Lekié", "Mbam-et-Inoubou", "Mbam-et-Kim",
                    "Méfou-et-Afamba", "Méfou-et-Akono", "Mfoundi",
                    "Nyong-et-Kellé", "Nyong-et-Mfoumou", "Nyong-et-So'o">>)
    @@ ("est" :> <<"Boumba-et-Ngoko", "Haut-Nyong", "Kadey", "Lom-et-Djérem">>)
    @@ ("extreme_nord" :> <<"Diamaré", "Logone-et-Chari", "Mayo-Danay",
                          "Mayo-Kani", "Mayo-Sava", "Mayo-Tsanaga">>)
    @@ ("littoral" :> <<"Moungo", "Nkam", "Sanaga-Maritime", "Wouri">>)
    @@ ("nord" :> <<"Bénoué", "Faro", "Mayo-Louti", "Mayo-Rey">>)
    @@ ("nord_ouest" :> <<"Boyo", "Bui", "Donga-Mantung", "Menchum", "Mezam",
                        "Momo", "Ngo-Ketunjia">>)
    @@ ("ouest" :> <<"Bamboutos", "Haut-Nkam", "Hauts-Plateaux", "Koung-Khi",
                   "Menoua", "Mifi", "Ndé", "Noun">>)
    @@ ("sud" :> <<"Dja-et-Lobo", "Mvila", "Océan", "Vallée-du-Ntem">>)
    @@ ("sud_ouest" :> <<"Fako", "Koupé-Manengouba", "Lebialem", "Manyu",
                       "Meme", "Ndian">>)

\* region_departement.js: REGIONS_DEPARTEMENTS[region].departements
REGIONS_DEPARTEMENTS_widget ==
    ("adamaoua" :> <<"Djerem", "Faro-et-Déo", "Mayo-Banyo", "Mbéré", "Vina">>)
    @@ ("centre" :> <<"Haute-Sanaga", "Lekié", "Mbam-et-Inoubou", "Mbam-et-Kim",
                    "Méfou-et-Afamba", "Méfou-et-Akono", "Mfoundi",
                    "Nyong-et-Kéllé", "Nyong-et-Mfoumou", "Nyong-et-So'o">>)
    @@ ("est" :> <<"Boumba-et-Ngoko", "Haut-Nyong", "Kadey", "Lom-et-Djerem">>)
    @@ ("extreme_nord" :> <<"Diamaré", "Logone-et-Chari", "Mayo-Danay",
                          "Mayo-Kani", "Mayo-Sava", "Mayo-Tsanaga">>)
    @@ ("littoral" :> <<"Moungo", "Nkam", "Sanaga-Maritime", "Wouri">>)
    @@ ("nord" :> <<"Bénoué", "Faro", "Mayo-Louti", "Mayo-Rey">>)
    @@ ("nord_ouest" :> <<"Boyo", "Bui", "Donga-Mantung", "Menchum", "Mezam",
                        "Momo", "Ngo-Ketunjia">>)
    @@ ("ouest" :> <<"Bamboutos", "Haut-Nkam", "Hauts-Plateaux", "Koung-Khi",
                   "Menoua", "Mifi", "Ndé", "Noun">>)
    @@ ("sud" :> <<"Dja-et-Lobo", "Mvila", "Océan", "Vallée-du-Ntem">>)
    @@ ("sud_ouest" :> <<"Fako", "Koupé-Manengouba", "Lebialem", "Manyu",
                       "Meme", "Ndian">>)

\* dynamic_titles.js: REGIONS_DEPARTEMENTS
REGIONS_DEPARTEMENTS_admin ==
    ("Centre" :> <<"Haute-Sanaga", "Lekié", "Mbam-et-Inoubou", "Mbam-et-Kim",
                    "Méfou-et-Afamba", "Méfou-et-Akono", "Mfoundi",
                    "Nyong-et-Kellé", "Nyong-et-Mfoumou", "Nyong-et-So'o">>)
    @@ ("Littoral" :> <<"Moungo", "Nkam", "Sanaga-Maritime", "Wouri">>)
    @@ ("Nord" :> <<"Bénoué", "Faro", "Mayo-Louti", "Mayo-Rey">>)
    @@ ("Extrême-Nord" :> <<"Diamaré", "Logone-et-Chari", "Mayo-Danay",
                          "Mayo-Kani", "Mayo-Sava", "Mayo-Tsanaga">>)
    @@ ("Adamaoua" :> <<"Djerem", "Faro-et-Déo", "Mayo-Banyo", "Mbéré", "Vina">>)
    @@ ("Ouest" :> <<"Bamboutos", "Haut-Nkam", "Hauts-Plateaux", "Koung-Khi",
                   "Menoua", "Mifi", "Mino", "Ndé">>)
    @@ ("Est" :> <<"Boumba-et-Ngoko", "Haut-Nyong", "Haut-Ogooué", "Kadey",
                 "Lom-et-Djerem">>)
    @@ ("Sud" :> <<"Dja-et-Lobo", "Mvila", "Océan", "Vallée-du-Ntem">>)
    @@ ("Nord-Ouest" :> <<"Boyo", "Bui", "Donga-Mantung", "Menchum", "Mezam",
                        "Momo", "Ngo-Ketunjia">>)
    @@ ("Sud-Ouest" :> <<"Fako", "Koupé-Manengouba", "Lebialem", "Manyu",
                       "Meme", "Ndian">>)

\* "widget": RegionDepartementWidget of region_departement.js; "admin": the
\* script of dynamic_titles.js; "inline": the script of part_002.
StVariants == {"widget", "admin", "inline"}

\* The static table of the variant
StTable(v) ==
    CASE v = "widget" -> REGIONS_DEPARTEMENTS_widget
      [] v = "admin"  -> REGIONS_DEPARTEMENTS_admin
      [] v = "inline" -> DEPARTEMENTS_CAMEROUN

\* The region value is a key of the table of the variant
IsRegion(v, r) == r \in DOMAIN StTable(v)

\* REGIONS_DEPARTEMENTS[regionValue] / DEPARTEMENTS_CAMEROUN[selectedRegion]
\* is truthy: an entry of the table, or what the table inherits
KnownRegion(v, r) == IsRegion(v, r) \/ r \in InheritedKeys

\* region.departements.forEach(...) / departements.forEach(...) throws a
\* TypeError: the value looked up is truthy and is not an entry
RegionThrows(v, r) == r # "" /\ KnownRegion(v, r) /\ ~IsRegion(v, r)

\* The values the options of the region select may have: none, and the keys
\* of the three tables (the keys of one variant are unknown to another).
StRegionValues ==
    {""} \cup DOMAIN REGIONS_DEPARTEMENTS_widget
         \cup DOMAIN REGIONS_DEPARTEMENTS_admin
         \cup DOMAIN DEPARTEMENTS_CAMEROUN

\* The value of the placeholder option.
PlaceholderValue == ""

\* An update that appends to the options already there.
StaticOptionsAppending(v, r, old) ==
    old \o (IF r # "" /\ IsRegion(v, r) THEN StTable(v)[r] ELSE <<>>)

\* updateDepartements: the option values of the department select left; the
\* three variants empty the select, add the placeholder and then the
\* departments of a known region; the forEach that throws adds none.
StaticOptions(v, r, old) ==
    <<PlaceholderValue>> \o
        (IF r # "" /\ KnownRegion(v, r) /\ ~RegionThrows(v, r)
         THEN StTable(v)[r] ELSE <<>>)

\* updateDepartements: departementSelect.disabled left; the widget assigns
\* false after its forEach, the admin script before.
StaticDisabled(v, r, old) ==
    CASE v = "widget" -> IF r = "" \/ ~KnownRegion(v, r) THEN TRUE
                         ELSE IF RegionThrows(v, r) THEN old
                         ELSE FALSE
      [] v = "admin"  -> (r = "")
      [] v = "inline" -> old

\* The department select as the server may render it: the placeholder alone
\* or the placeholder and the departments of one region.
RenderedOptions(v) ==
    {<<PlaceholderValue>>}
        \cup {<<PlaceholderValue>> \o StTable(v)[r] : r \in DOMAIN StTable(v)}

\* The variant calls updateDepartements when the page loads: the widget when
\* a region is selected, the admin script when a region is selected and the
\* department select has data-initial, the inline script always.
UpdatesAtLoad(v, r, initial) ==
    CASE v = "widget" -> r # ""
      [] v = "admin"  -> r # "" /\ initial
      [] v = "inline" -> TRUE

\* DOMContentLoaded of the variant
StInit ==
    /\ variant \in StVariants
    /\ stRegion \in StRegionValues
    /\ \E opts \in RenderedOptions(variant), dis \in BOOLEAN, initial \in BOOLEAN :
          /\ stOptions = IF UpdatesAtLoad(variant, stRegion, initial)
                         THEN StaticOptions(variant, stRegion, opts)
                         ELSE opts
          /\ stDisabled = IF UpdatesAtLoad(variant, stRegion, initial)
                          THEN StaticDisabled(variant, stRegion, dis)
                          ELSE IF variant = "widget" THEN TRUE
                          ELSE dis
    /\ stLast = "load"
    /\ DpIdle
    /\ PmIdle
    /\ DtIdle
    /\ RgIdle
    /\ WaIdle
    /\ TnIdle
    /\ TwIdle
    /\ SvIdle
    /\ DrIdle

\* 'change' listener of the region select: updateDepartements
StaticRegionChange(r) ==
    /\ r # stRegion
    /\ stRegion' = r
    /\ stOptions' = StaticOptions(variant, r, stOptions)
    /\ stDisabled' = StaticDisabled(variant, r, stDisabled)
    /\ stLast' = "change"
    /\ UNCHANGED variant
    /\ UNCHANGED notSt

\* A call of updateDepartements by itself: the method of the widget and
\* window.updateDepartements of the admin script take the region value as
\* their argument, the function of the inline script reads the region
\* select. The region select keeps its value.
UpdateDepartements(r) ==
    /\ variant = "inline" => r = stRegion
    /\ stOptions' = StaticOptions(variant, r, stOptions)
    /\ stDisabled' = StaticDisabled(variant, r, stDisabled)
    /\ stLast' = IF RegionThrows(variant, r) THEN "throw" ELSE "call"
    /\ UNCHANGED <<variant, stRegion>>
    /\ UNCHANGED notSt

\* new RegionDepartementWidget(regionSelectId, departementSelectId) on
\* selects that have their widget already (initRegionDepartementWidgets
\* called again): init() updates the departments of the region selected, if
\* any, and addVisualEnhancements disables the department select when none
\* is selected, leaving its options. The 'change' listener bound once more
\* repeats an update that gives the same select.
ConstructWidget ==
    /\ variant = "widget"
    /\ stOptions' = IF UpdatesAtLoad(variant, stRegion, FALSE)
                    THEN StaticOptions(variant, stRegion, stOptions)
                    ELSE stOptions
    /\ stDisabled' = IF UpdatesAtLoad(variant, stRegion, FALSE)
                     THEN StaticDisabled(variant, stRegion, stDisabled)
                     ELSE TRUE
    /\ stLast' = "construct"
    /\ UNCHANGED <<variant, stRegion>>
    /\ UNCHANGED notSt

StNext ==
    \/ \E r \in StRegionValues : StaticRegionChange(r)
    \/ \E r \in StRegionValues \cup InheritedKeys : UpdateDepartements(r)
    \/ ConstructWidget

\* The static region and department selects alone.
SpecStatic == StInit /\ [][StNext]_vars

---------------------------------------------------------------------------
(* Claims about the static region -> department selects *)

\* C11: after a known region has been selected, the department select holds
\* the placeholder and then exactly the static list of that region, nothing
\* being left of the options it held before; for the region littoral the
\* list is Moungo, Nkam, Sanaga-Maritime, Wouri.
C11_StaticListOfRegion ==
    (stLast = "change" /\ IsRegion(variant, stRegion)) =>
        /\ stOptions = <<PlaceholderValue>> \o StTable(variant)[stRegion]
        /\ stRegion \in {"littoral", "Littoral"} =>
              stOptions = <<PlaceholderValue, "Moungo", "Nkam",
                            "Sanaga-Maritime", "Wouri">>

\* The region littoral has just been selected.
C11_Witness ==
    /\ stLast = "change"
    /\ stRegion \in {"littoral", "Littoral"}
    /\ IsRegion(variant, stRegion)
    /\ Len(stOptions) > 1

\* C12: after the empty region value has been selected, the department
\* select is disabled and holds no department option.
C12_EmptyRegionDisables ==
    (stLast = "change" /\ stRegion = "") =>
        stDisabled /\ stOptions = <<PlaceholderValue>>

---------------------------------------------------------------------------
(* Claims about the bulk buttons of the day picker *)

\* The grid of the month and year of the widget, its selected cells being the
\* days of the month that the selection holds.
GridInSync ==
    grid = GridOf(currentYear, currentMonth,
                  {d \in 1..DaysInMonth(currentYear, currentMonth) :
                      d \in SelectedSet(selectedDays)})

\* A month is displayed: the month and the year of the widget are numbers.
MonthDisplayed == ~(Falsy(currentMonth) \/ Falsy(currentYear))

\* The days of the displayed month that fall on Monday to Friday.
MondayToFriday ==
    {d \in 1..DaysInMonth(currentYear, currentMonth) :
        GetDay(currentYear, currentMonth, d) \in 1..5}

\* The three copies of the day picker, used through the page only: the cells
\* of the grid, the buttons, the month select and the year input.
SpecPage == DpInit /\ [][DpNextCorrige]_vars

\* C13: after selectWeekdays the selected set is exactly the Monday to Friday
\* days of the displayed month and the hidden field holds it, and a second
\* call right after the first leaves the set and the hidden field unchanged.
C13_SelectWeekdays ==
    /\ [](dpHist.op = "selectWeekdays" /\ MonthDisplayed =>
            /\ selectedKind = "array"
            /\ SelectedSet(selectedDays) = MondayToFriday
            /\ Len(selectedDays) = Cardinality(MondayToFriday)
            /\ hiddenValue = JSONstringify(selectedDays))
    /\ [][dpHist.op = "selectWeekdays" /\ dpHist'.op = "selectWeekdays"
            /\ MonthDisplayed =>
                selectedDays' = selectedDays /\ hiddenValue' = hiddenValue]_vars

\* selectWeekdays has run on a displayed month and selected twenty days or more.
C13_Witness ==
    /\ dpHist.op = "selectWeekdays"
    /\ MonthDisplayed
    /\ Cardinality(SelectedSet(selectedDays)) >= 20

---------------------------------------------------------------------------
(* Claims about the validation of the date input *)

\* The value is later than today or earlier than the date one year before
\* today, today being the date of the user's clock.
OutOfRange(v, now) == StringLess(now, v) \/ StringLess(v, OneYearBefore(now))

\* C14: once validateDate has run on a non-empty value, the input is flagged
\* invalid and shows an inline message exactly when the value is later than
\* today or earlier than the date one year before today; otherwise it is
\* marked valid and shows no inline message.
C14_InvalidExactlyOutOfRange ==
    (dtLast.op = "input" /\ value # NoDate) =>
        IF OutOfRange(value, nowLocal)
        THEN validity = "is-invalid" /\ dateError # "none"
        ELSE validity = "is-valid" /\ dateError = "none"

\* The same, the clock being in a time zone whose date is the UTC date and
\* today not being 29 February.
C14_SideCheck ==
    (dayAhead = 0 /\ nowLocal[3] <= 28) => C14_InvalidExactlyOutOfRange

\* C15: a change of the month select or of the year input to a month and a
\* year regenerates the grid for them (the two copies of calendrier_widget.js)
\* and leaves the selected-days array and
\* the hidden field as they were, the selected days that do not exist in the
\* month now displayed included.
C15_MonthYearChangeKeepsSelection ==
    /\ [][dpHist'.op \in {"mois", "annee"} =>
            selectedDays' = selectedDays /\ hiddenValue' = hiddenValue]_vars
    /\ [](dpHist.op \in {"mois", "annee"} /\ MonthDisplayed
            /\ widget \in {"corrige", "simple"} => GridInSync)

\* The month or the year has been changed to a month shorter than a day the
\* selection holds.
C15_Witness ==
    /\ dpHist.op \in {"mois", "annee"}
    /\ widget \in {"corrige", "simple"}
    /\ MonthDisplayed
    /\ grid.drawn = "grid"
    /\ \E d \in SelectedSet(selectedDays) :
          d > DaysInMonth(currentYear, currentMonth)

\* The text is JSON for an array of numbers.
ArrayOfNumbers(text) ==
    /\ JSONparse(text).ok
    /\ JSONparse(text).kind = "array"
    /\ \A i \in 1..Len(JSONparse(text).arr) : IsNumber(JSONparse(text).arr[i])

\* C16: when the hidden field holds malformed JSON or JSON that is not an
\* array of numbers, the day picker starts with an empty selected set, and no
\* exception escapes the initialisation or a later operation.
C16_MalformedLoadsEmpty ==
    /\ ~dpThrown
    /\ (dpHist.op = "init" /\ ~ArrayOfNumbers(hiddenValue)) =>
            selectedKind = "array" /\ SelectedSet(selectedDays) = {}

\* The same for the corrected copy (the simple copy starts from its argument
\* and does not read the field).
C16_SideCheck == widget = "corrige" => C16_MalformedLoadsEmpty

\* A step of toggleDay / toggleDaySimple called with a day outside 1..31,
\* which leaves the values of the array and of the serialized array alone.
RejectsOutOfRange ==
    (dpHist'.op = "toggleDay" /\ dpHist'.day \notin 1..31) =>
        /\ SetOf(selectedDays') = SetOf(selectedDays)
        /\ SetOf(JSONparse(hiddenValue').arr) = SetOf(JSONparse(hiddenValue).arr)

\* C17: a toggle request for a day outside 1..31 is rejected: after the call
\* the selected set and the array serialized in the hidden field contain the
\* same days as before the call.
C17_OutOfRangeToggleRejected == [][RejectsOutOfRange]_vars

\* The same for the corrected copy.
C17_SideCheck == [][widget = "corrige" => RejectsOutOfRange]_vars

\* C18: after selectAllDays on a displayed month and year, whatever was
\* selected before, the selected days are exactly 1..N, N being the number of
\* days of the displayed month, and the hidden field holds that array.
C18_SelectAllDays ==
    (dpHist.op = "selectAllDays" /\ MonthDisplayed) =>
        /\ selectedKind = "array"
        /\ selectedDays =
              [i \in 1..DaysInMonth(currentYear, currentMonth) |-> Num(i)]
        /\ hiddenValue = JSONstringify(selectedDays)

\* selectAllDays has run on February of a leap year.
C18_Witness ==
    /\ dpHist.op = "selectAllDays"
    /\ MonthDisplayed
    /\ Len(selectedDays) = 29

---------------------------------------------------------------------------
(* Write actions of the admin pages and of supper.js: resetPassword,
   markAsRead, resetUserPassword, sendNotification, marquerCommeLu,
   renvoyerNotification (dynamic_titles.js), markNotificationAsRead
   (supper.js) *)

\* How many times a handler is invoked on one page.
MaxCalls == 2

WriteActions ==
    {"resetPassword", "markAsRead", "resetUserPassword", "sendNotification",
     "marquerCommeLu", "renvoyerNotification", "markNotificationAsRead"}

\* The handlers that open confirm() or prompt() before they send.
AsksFirst ==
    {"resetPassword", "resetUserPassword", "sendNotification",
     "renvoyerNotification"}

\* Where the page carries the CSRF token: the hidden field, the meta tag, or
\* nowhere.
CsrfPlaces == {"field", "meta", "none"}

\* The script tags of the page: dynamic_titles.js ("titles"), supper.js
\* ("supper"), or both in either order.
ScriptOrders ==
    {<<"titles">>, <<"supper">>, <<"titles", "supper">>, <<"supper", "titles">>}

\* The script that declares the handler.
ScriptOf(a) == IF a = "markNotificationAsRead" THEN "supper" ELSE "titles"

\* The handler exists on the page.
Declared(a, order) == \E i \in 1..Len(order) : order[i] = ScriptOf(a)

\* Both scripts declare a global function getCSRFToken: the declaration of
\* the script loaded last replaces the other, for the handlers of both.
GetterScript(order) == order[Len(order)]

\* if (confirm(...)) / if (message && message.trim()): the handler goes on to
\* fetch; answer is TRUE when the user confirms or types a message.
Proceeds(a, answer) == a \notin AsksFirst \/ answer

\* document.querySelector('[name=csrfmiddlewaretoken]').value without a null
\* check: a TypeError when the hidden field is absent.
ReadsFieldUnchecked(a) == a \in {"resetPassword", "markAsRead"}

\* The value sent as X-CSRFToken: the getCSRFToken() of dynamic_titles.js
\* falls back to the meta tag and then to '', that of supper.js to ''; the
\* one in effect is that of the script loaded last.
CsrfHeader(a, place, order) ==
    CASE place = "field" -> "token"
      [] place = "meta" /\ GetterScript(order) = "titles"
                        /\ ~ReadsFieldUnchecked(a) -> "token"
      [] OTHER -> ""

\* The handler throws before fetch is called.
ThrowsBeforeFetch(a, answer, place) ==
    Proceeds(a, answer) /\ ReadsFieldUnchecked(a) /\ place # "field"

\* What the request can get: fetch rejects, the body is not JSON, or the
\* body is JSON with success true or false.
WriteReplies == {"network", "not_json", "success", "failure"}

\* The handler has an else branch for data.success false.
HasFailureBranch(a) == a \notin {"markAsRead", "markNotificationAsRead"}

\* A promise chain without .catch.
ToastWithoutCatch(a, reply) ==
    CASE reply = "success" -> "success"
      [] reply = "failure" /\ HasFailureBranch(a) -> "error"
      [] OTHER -> "none"

\* The toast the promise chain shows: .then(response.json()).then(data =>
\* ...).catch(...).
ToastAfter(a, reply) ==
    CASE reply \in {"network", "not_json"} -> "error"
      [] reply = "success" -> "success"
      [] reply = "failure" /\ HasFailureBranch(a) -> "error"
      [] OTHER -> "none"

\* location.reload() after a success
Reloads(a, reply) == reply = "success" /\ a \in {"markAsRead", "marquerCommeLu"}

\* markNotificationAsRead finds the item of the notification and arms the
\* 500 ms timer that removes it and calls loadNotifications().
ArmsTimer(a, reply, item) ==
    a = "markNotificationAsRead" /\ reply = "success" /\ item

\* One invocation of a handler.
Invocation(a, went, thrown, n, header) ==
    [action |-> a, proceeded |-> went, thrown |-> thrown, issued |-> n,
     header |-> header, reply |-> "none", toast |-> "none", timer |-> FALSE,
     stale |-> FALSE]

\* DOMContentLoaded: initializeNotifications of supper.js calls
\* loadNotifications().
WaInit ==
    /\ scripts \in ScriptOrders
    /\ csrf \in CsrfPlaces
    /\ notifUI \in BOOLEAN
    /\ notifItem \in BOOLEAN
    /\ calls = <<>>
    /\ reloaded = FALSE
    /\ loads = IF Declared("markNotificationAsRead", scripts) THEN 1 ELSE 0
    /\ lastCheck = FALSE
    /\ DpIdle
    /\ PmIdle
    /\ DtIdle
    /\ RgIdle
    /\ StIdle
    /\ TnIdle
    /\ TwIdle
    /\ SvIdle
    /\ DrIdle

\* A call of one of the global handlers
Invoke(a, answer) ==
    /\ ~reloaded
    /\ Declared(a, scripts)
    /\ Len(calls) < MaxCalls
    /\ calls' = Append(calls,
          Invocation(a, Proceeds(a, answer),
                     ThrowsBeforeFetch(a, answer, csrf),
                     IF Proceeds(a, answer) /\ ~ThrowsBeforeFetch(a, answer, csrf)
                     THEN 1 ELSE 0,
                     CsrfHeader(a, csrf, scripts)))
    /\ UNCHANGED <<scripts, csrf, notifUI, notifItem, reloaded, loads, lastCheck>>
    /\ UNCHANGED notWa

\* The request of invocation i settles and its .then / .catch callbacks run
Settle(i, reply) ==
    /\ ~reloaded
    /\ i \in 1..Len(calls)
    /\ calls[i].issued = 1
    /\ calls[i].reply = "none"
    /\ calls' = [calls EXCEPT
          ![i].reply = reply,
          ![i].toast = ToastAfter(calls[i].action, reply),
          ![i].timer = ArmsTimer(calls[i].action, reply, notifItem)]
    /\ reloaded' = Reloads(calls[i].action, reply)
    /\ UNCHANGED <<scripts, csrf, notifUI, notifItem, loads, lastCheck>>
    /\ UNCHANGED notWa

\* The time, in milliseconds, within which loadNotifications() does not load
\* again.
ThrottleWindow == 5000

\* SUPPER.cache.lastNotificationCheck is not set: no load has succeeded yet.
NeverLoaded == -1

\* The time elapsed since the call of the last load that succeeded, when
\* loadNotifications() is called; NeverLoaded while none has succeeded.
SinceLoads == {NeverLoaded, 1000, ThrottleWindow}

\* A loadNotifications() that always sends its request.
NeverThrottled(since) == FALSE

\* lastNotificationCheck && (now - lastNotificationCheck) < 5000: the call
\* returns without a request.
Throttled(since) == since # NeverLoaded /\ since < ThrottleWindow

\* Notification GETs in flight at one time.
MaxLoads == 2

\* notifElement.remove() on the element found when the timer was armed: it
\* removes the item unless the list has been drawn again since (the element
\* is then no longer in the page and the item drawn anew stays).
RemoveElement(stale, item) == IF stale THEN item ELSE FALSE

\* if (!badge || !container) return;  updateNotificationUI goes on to assign
\* container.innerHTML.
DrawsList(reply, ui) == reply # "failure" /\ ui

\* The elements the armed timers hold are no longer in the page once
\* container.innerHTML has been assigned.
Redrawn(cs, reply, ui) ==
    [i \in 1..Len(cs) |->
        IF cs[i].timer /\ DrawsList(reply, ui) THEN [cs[i] EXCEPT !.stale = TRUE]
        ELSE cs[i]]

\* The 500 ms timer of markNotificationAsRead: notifElement.remove() and
\* loadNotifications(), which sends its GET unless the last load is less
\* than five seconds old.
RemoveItem(i, since) ==
    /\ ~reloaded
    /\ i \in 1..Len(calls)
    /\ calls[i].timer
    /\ (since = NeverLoaded) <=> ~lastCheck
    /\ Throttled(since) \/ loads < MaxLoads
    /\ calls' = [calls EXCEPT
          ![i].timer = FALSE,
          ![i].issued = IF Throttled(since) THEN @ ELSE @ + 1]
    /\ loads' = IF Throttled(since) THEN loads ELSE loads + 1
    /\ notifItem' = RemoveElement(calls[i].stale, notifItem)
    /\ UNCHANGED <<scripts, csrf, notifUI, reloaded, lastCheck>>
    /\ UNCHANGED notWa

\* loadNotifications() called by setInterval every 30 s, or through
\* window.SUPPER
LoadNotifications(since) ==
    /\ ~reloaded
    /\ Declared("markNotificationAsRead", scripts)
    /\ (since = NeverLoaded) <=> ~lastCheck
    /\ ~Throttled(since)
    /\ loads < MaxLoads
    /\ loads' = loads + 1
    /\ UNCHANGED <<scripts, csrf, notifUI, notifItem, calls, reloaded, lastCheck>>
    /\ UNCHANGED notWa

\* What the GET of loadNotifications may be answered: a failure, or the
\* list of the notifications, which holds the notification of the page's
\* item or not.
LoadReplies == {"failure", "listed", "unlisted"}

\* updateNotificationUI(data) returns at once on a page without the badge or
\* without the container; otherwise it rewrites #notificationsContainer:
\* the item of the notification is there afterwards exactly when the list
\* holds it.
UpdateNotificationUI(reply, item, ui) ==
    IF DrawsList(reply, ui) THEN reply = "listed" ELSE item

\* The GET of a loadNotifications() is answered: on success the list is
\* drawn again and lastNotificationCheck is set.
LoadAnswer(reply) ==
    /\ ~reloaded
    /\ loads > 0
    /\ loads' = loads - 1
    /\ notifItem' = UpdateNotificationUI(reply, notifItem, notifUI)
    /\ lastCheck' = (lastCheck \/ reply # "failure")
    /\ calls' = Redrawn(calls, reply, notifUI)
    /\ UNCHANGED <<scripts, csrf, notifUI, reloaded>>
    /\ UNCHANGED notWa

WaNext ==
    \/ \E a \in WriteActions, answer \in BOOLEAN : Invoke(a, answer)
    \/ \E i \in 1..MaxCalls, reply \in WriteReplies : Settle(i, reply)
    \/ \E i \in 1..MaxCalls, since \in SinceLoads : RemoveItem(i, since)
    \/ \E since \in SinceLoads : LoadNotifications(since)
    \/ \E reply \in LoadReplies : LoadAnswer(reply)

\* The write actions alone.
SpecWrite == WaInit /\ [][WaNext]_vars

---------------------------------------------------------------------------
(* Claims about the write actions *)

\* C19: on a page that lacks elements the scripts target, the CSRF hidden
\* field among them, every globally exposed handler completes without
\* throwing.
C19_HandlersNeverThrow ==
    \A i \in 1..Len(calls) : ~calls[i].thrown

\* The same for the handlers that read the token through getCSRFToken().
C19_SideCheck ==
    \A i \in 1..Len(calls) :
        ~ReadsFieldUnchecked(calls[i].action) => ~calls[i].thrown

\* C20: when the request of a write action fails at network level, an error
\* toast is shown and the invocation has issued no other request.
C20_NetworkFailureToastNoRetry ==
    \A i \in 1..Len(calls) :
        calls[i].reply = "network" =>
            calls[i].toast = "error" /\ calls[i].issued = 1

\* The request of each of the seven write actions can fail at network level;
\* here one invocation has failed after an earlier one had succeeded.
C20_Witness ==
    /\ Len(calls) = 2
    /\ calls[1].reply = "success"
    /\ calls[2].reply = "network"
    /\ calls[2].toast = "error"

---------------------------------------------------------------------------
(* Toasts of the admin pages: showNotification / removeNotification of
   dynamic_titles.js *)

\* How many toasts one page shows, and how many times one toast is clicked.
MaxToasts == 2
MaxClicks == 1

\* duration = duration || 4000
DefaultDuration == 4000

\* The durations a caller gives; 0 stands for no duration given.
GivenDurations == {0, 2000}

ToastTypes == {"success", "error", "warning", "info"}

\* duration = duration || 4000
EffectiveDuration(given) == IF given = 0 THEN DefaultDuration ELSE given

\* showNotification: the toast appended to the container, its duration timer
\* armed (the type sets the colour of the toast only).
NewToast(type, given) ==
    [duration |-> EffectiveDuration(given), attached |-> TRUE,
     durationTimer |-> TRUE, removalTimers |-> 0, clicks |-> 0,
     removals |-> 0]

\* A removal that does not look at parentNode.
RemoveChildUnchecked(attached) == TRUE

\* if (notification.parentNode) of removeNotification and of its 300 ms
\* callback
HasParent(attached) == attached

\* removeNotification(notification): arms the 300 ms timer when the toast is
\* still in the container.
RemoveNotification(t) ==
    IF HasParent(t.attached)
    THEN [t EXCEPT !.removalTimers = @ + 1]
    ELSE t

\* The callback of the 300 ms timer: parentNode.removeChild(notification);
\* removeChild on a toast that has left the container raises an error.
RemoveChild(t) ==
    IF HasParent(t.attached)
    THEN [t EXCEPT !.attached = FALSE, !.removals = @ + 1,
                   !.removalTimers = @ - 1]
    ELSE [t EXCEPT !.removalTimers = @ - 1]

TnInit ==
    /\ toasts = <<>>
    /\ DpIdle
    /\ PmIdle
    /\ DtIdle
    /\ RgIdle
    /\ StIdle
    /\ WaIdle
    /\ TwIdle
    /\ SvIdle
    /\ DrIdle

\* showNotification(message, type, duration)
ShowNotification(type, given) ==
    /\ Len(toasts) < MaxToasts
    /\ toasts' = Append(toasts, NewToast(type, given))
    /\ UNCHANGED notTn

\* 'click' listener of the toast; only a toast in the container is clicked
ClickToast(i) ==
    /\ i \in 1..Len(toasts)
    /\ toasts[i].attached
    /\ toasts[i].clicks < MaxClicks
    /\ toasts' = [toasts EXCEPT
          ![i] = [RemoveNotification(toasts[i]) EXCEPT !.clicks = @ + 1]]
    /\ UNCHANGED notTn

\* setTimeout(function() { removeNotification(notification); }, duration)
DurationElapsed(i) ==
    /\ i \in 1..Len(toasts)
    /\ toasts[i].durationTimer
    /\ toasts' = [toasts EXCEPT
          ![i] = [RemoveNotification(toasts[i]) EXCEPT !.durationTimer = FALSE]]
    /\ UNCHANGED notTn

\* The 300 ms timer of removeNotification fires
RemovalTimer(i) ==
    /\ i \in 1..Len(toasts)
    /\ toasts[i].removalTimers > 0
    /\ toasts' = [toasts EXCEPT ![i] = RemoveChild(toasts[i])]
    /\ UNCHANGED notTn

TnNext ==
    \/ \E type \in ToastTypes, given \in GivenDurations : ShowNotification(type, given)
    \/ \E i \in 1..MaxToasts : ClickToast(i)
    \/ \E i \in 1..MaxToasts : DurationElapsed(i)
    \/ \E i \in 1..MaxToasts : RemovalTimer(i)

\* The toasts alone.
SpecToast == TnInit /\ [][TnNext]_vars

\* The toasts, every armed timer firing in the end.
SpecToastFair ==
    /\ SpecToast
    /\ \A i \in 1..MaxToasts :
          WF_vars(DurationElapsed(i)) /\ WF_vars(RemovalTimer(i))

---------------------------------------------------------------------------
(* Claims about the toasts *)

\* C21: every toast showNotification creates is removed from the container
\* in the end, its duration (the given one or the default) having elapsed,
\* whether or not it is clicked too; it is never removed twice and no
\* removal raises an error.
C21_ToastRemovedOnce ==
    /\ [](\A i \in 1..Len(toasts) :
            /\ toasts[i].removals <= 1
            /\ toasts[i].attached = (toasts[i].removals = 0))
    /\ \A i \in 1..MaxToasts :
          (Len(toasts) >= i) ~>
              (Len(toasts) >= i /\ ~toasts[i].attached
                  /\ ~toasts[i].durationTimer /\ toasts[i].removalTimers = 0)

\* A toast has been clicked, its duration has elapsed and every timer has
\* fired: the toast has been removed once.
C21_Witness ==
    \E i \in 1..Len(toasts) :
        /\ toasts[i].clicks > 0
        /\ ~toasts[i].durationTimer
        /\ toasts[i].removalTimers = 0
        /\ toasts[i].removals = 1

---------------------------------------------------------------------------
(* Claims about the permission form when a user is edited *)

\* A change of the selected role on a form that is not the creation form
\* leaves the permission checkboxes as they were.
EditKeepsPermissions ==
    (~creation /\ habilitation' # habilitation) => checked' = checked

\* C22: on a user form that is not the creation form, changing the selected
\* habilitation leaves every permission checkbox in the state it had.
C22_EditFormNotOverwritten == [][EditKeepsPermissions]_vars

\* The same for the two copies of the permission manager.
C22_SideCheck ==
    [][(script \in {"manager", "mapping"}) => (EditKeepsPermissions)]_vars

---------------------------------------------------------------------------
(* Two day pickers on one page: initCalendrier called for two widget ids *)

WidgetIds == {"a", "b"}

\* What the server has rendered into the hidden field of each widget.
TwoWidgetInputs == {<<>>, <<LB, Num(1), Comma, Num(31), RB>>}

\* The four functions each call of initCalendrier assigns to window.
WindowOps == {"toggleDay", "selectAllDays", "clearAllDays", "selectWeekdays"}

\* if (wId !== widgetId) return;  in the closure window.toggleDay,
\* window.selectAllDays, window.clearAllDays and window.selectWeekdays refer
\* to, which is the closure of the widget initialised last.
RunsFor(owner, wId) == wId = owner

\* The guards of the corrected copy after that of the widget id: the range
\* of the day in toggleDay, the month and the year in selectAllDays and
\* selectWeekdays. A call they reject returns before updateHiddenInput.
TwoWidgetAccepts(op, day, y, m) ==
    CASE op = "toggleDay"      -> ToggleAccepts("corrige", day)
      [] op = "selectAllDays"  -> BulkGuard("corrige", y, m)
      [] op = "clearAllDays"   -> TRUE
      [] op = "selectWeekdays" -> BulkGuard("corrige", y, m)

\* The array a bulk button or a toggle of the corrected copy leaves.
TwoWidgetResult(op, a, day, y, m) ==
    IF ~TwoWidgetAccepts(op, day, y, m) THEN a
    ELSE CASE op = "toggleDay" ->
                  UpdatedDays("corrige", ToggledDays("corrige", a, day))
           [] op = "selectAllDays"  -> UpdatedDays("corrige", AllDays(y, m))
           [] op = "clearAllDays"   -> UpdatedDays("corrige", <<>>)
           [] op = "selectWeekdays" -> UpdatedDays("corrige", Weekdays(y, m))

\* The text of the hidden field of the widget after the call: written by
\* updateHiddenInput, which a rejected call does not reach.
TwoWidgetHidden(op, a, text, day, y, m) ==
    IF TwoWidgetAccepts(op, day, y, m)
    THEN JSONstringify(TwoWidgetResult(op, a, day, y, m))
    ELSE text

\* initCalendrier('a') and initCalendrier('b'), in either order: each call
\* assigns window.toggleDay and the three other globals anew.
TwInit ==
    /\ twOwner \in WidgetIds
    /\ twMonth \in Months
    /\ twYear \in Years
    /\ twHidden \in [WidgetIds -> TwoWidgetInputs]
    /\ twDays = [id \in WidgetIds |-> LoadSelectedDays("corrige", twHidden[id]).arr]
    /\ twLast = [op |-> "init", id |-> "", day |-> 0]
    /\ DpIdle
    /\ PmIdle
    /\ DtIdle
    /\ RgIdle
    /\ StIdle
    /\ WaIdle
    /\ TnIdle
    /\ SvIdle
    /\ DrIdle

\* toggleDay(day, id), selectAllDays(id), clearAllDays(id) or
\* selectWeekdays(id): the onclick of a cell or of a button of widget id, or
\* a call by another script (toggleDay with any day); day is 0 for the
\* calls that take no day.
WindowCall(op, id, day) ==
    /\ op # "toggleDay" => day = 0
    /\ twLast' = [op |-> op, id |-> id, day |-> day]
    /\ IF RunsFor(twOwner, id)
       THEN /\ twDays' = [twDays EXCEPT ![twOwner] =
                            TwoWidgetResult(op, twDays[twOwner], day, twYear, twMonth)]
            /\ twHidden' = [twHidden EXCEPT ![twOwner] =
                            TwoWidgetHidden(op, twDays[twOwner], twHidden[twOwner],
                                            day, twYear, twMonth)]
       ELSE UNCHANGED <<twDays, twHidden>>
    /\ UNCHANGED <<twOwner, twMonth, twYear>>
    /\ UNCHANGED notTw

\* 'change' listeners of select[name="mois"], one per widget: both closures
\* read the same select and keep the same month; parsed = parseInt(this.value)
TwoWidgetMoisChange(parsed) ==
    /\ twMonth' = NewMonth("corrige", twMonth, parsed)
    /\ twLast' = [op |-> "mois", id |-> "", day |-> 0]
    /\ UNCHANGED <<twOwner, twYear, twDays, twHidden>>
    /\ UNCHANGED notTw

\* 'change' listeners of input[name="annee"], one per widget
TwoWidgetAnneeChange(parsed) ==
    /\ twYear' = NewYear("corrige", twYear, parsed)
    /\ twLast' = [op |-> "annee", id |-> "", day |-> 0]
    /\ UNCHANGED <<twOwner, twMonth, twDays, twHidden>>
    /\ UNCHANGED notTw

TwNext ==
    \/ \E op \in WindowOps, id \in WidgetIds, day \in ToggleInputs :
          WindowCall(op, id, day)
    \/ \E m \in Months \cup {NaN} : TwoWidgetMoisChange(m)
    \/ \E y \in Years \cup TwoDigitYears \cup {NaN} : TwoWidgetAnneeChange(y)

\* Two corrected day pickers on one page.
SpecTwoWidgets == TwInit /\ [][TwNext]_vars

---------------------------------------------------------------------------
(* Claims about two day pickers on one page *)

\* A call for widget id updates the selected days and the hidden field of
\* that widget (a toggle of a day outside 1..31 changes neither) and leaves
\* those of the other widget alone.
UpdatesNamedWidget ==
    twLast'.op \in WindowOps =>
        /\ twDays'[twLast'.id] =
              TwoWidgetResult(twLast'.op, twDays[twLast'.id], twLast'.day,
                              twYear, twMonth)
        /\ twHidden'[twLast'.id] =
              TwoWidgetHidden(twLast'.op, twDays[twLast'.id], twHidden[twLast'.id],
                              twLast'.day, twYear, twMonth)
        /\ \A other \in WidgetIds \ {twLast'.id} :
              twDays'[other] = twDays[other] /\ twHidden'[other] = twHidden[other]

\* C23: with initCalendrier called for two widget ids on one page,
\* toggleDay(d, id), selectAllDays(id), clearAllDays(id) and
\* selectWeekdays(id) update the selected set and the hidden field of the
\* widget named by id, for either id, and never those of the other widget.
C23_CallsReachNamedWidget == [][UpdatesNamedWidget]_vars

\* The same for the widget initialised last, and the other widget is never
\* touched.
C23_SideCheck ==
    [][(twLast'.op \in WindowOps) =>
          /\ (twLast'.id = twOwner => UpdatesNamedWidget)
          /\ \A other \in WidgetIds \ {twLast'.id} :
                twDays'[other] = twDays[other] /\ twHidden'[other] = twHidden[other]]_vars

\* C24: in every state of a bound date input, after validateDate calls (calls
\* with an empty value included) and periodic error sweeps, an inline error
\* message is displayed if and only if the input carries the class
\* is-invalid.
C24_MessageIffInvalid ==
    (dateError # "none") <=> (validity = "is-invalid")

\* The same without the sweep and without calls on an empty value.
C24_SideCheck ==
    (dtLast.op \in {"input", "blur"} /\ value # NoDate) => C24_MessageIffInvalid

---------------------------------------------------------------------------
(* Claims about the count element of the day picker *)

\* C25: after any sequence of day-picker operations and month or year
\* changes, the number in the count element equals the number of day cells
\* rendered as selected in the grid displayed.
C25_CountMatchesGrid ==
    grid.drawn = "grid" => countShown = Cardinality(grid.selected)

\* The same while every selected day exists in the month displayed and the
\* array holds days of 1..31 only, each once.
C25_SideCheck ==
    (/\ widget \in {"corrige", "simple"}
     /\ \A i \in 1..Len(selectedDays) :
           /\ selectedDays[i].k = "int"
           /\ selectedDays[i].n \in 1..DaysInMonth(grid.year, grid.month)
     /\ Cardinality(SetOf(selectedDays)) = Len(selectedDays))
        => C25_CountMatchesGrid

---------------------------------------------------------------------------
(* Claims about the tables of the permission scripts *)

\* The permissions that the lists of the roles of a script name and its
\* full list does not hold.
OutsideFullList(s) ==
    UNION {{<<h, p>> : p \in SetOf(Table(s)[h]) \ SetOf(Toutes(s))} :
              h \in DOMAIN Table(s)}

\* The checked set left by the function of the script that applies a role.
AppliedRole(s, d, c, h) ==
    IF s = "auto" THEN CocherPermissionsPourHabilitation(s, d, c, h)
    ELSE ApplyPermissionsForHabilitation(s, d, c, h)

\* The checkboxes that applying a role of the table checks on the page and
\* that are still checked after resetAllPermissions /
\* decocherToutesPermissions.
LeftByReset(s, d) ==
    UNION {ResetAllPermissions(s, d, AppliedRole(s, d, {}, h)) :
              h \in DOMAIN Table(s)}

\* C26: every permission identifier of the list of any role of the table
\* belongs to the full permission list of the script, and resetAllPermissions
\* / decocherToutesPermissions unchecks every checkbox that applying any role
\* can check.
C26_ResetReachesEveryRoleBox ==
    /\ OutsideFullList(script) = {}
    /\ LeftByReset(script, dom) = {}

\* The lists of the roles are within the full list in the three scripts, and
\* the reset reaches every checkbox a role checks in the two copies of the
\* permission manager and on pages whose checkboxes all have their id.
C26_SideCheck ==
    /\ OutsideFullList(script) = {}
    /\ (script # "auto" \/ \A p \in PagePermissions : dom[p] # "name")
           => LeftByReset(script, dom) = {}

---------------------------------------------------------------------------
(* Claims about the status banner of the date input *)

\* C27: after any sequence of day-status checks on a date input, with the
\* responses arriving in any order, at most one status banner is displayed
\* for the input.
C27_AtMostOneBanner ==
    /\ bannerCount <= 1
    /\ banner.shown <=> bannerCount = 1

\* Two checks or more have been issued and all have been answered: one
\* banner is displayed.
C27_Witness ==
    /\ dtLast.op = "resolve"
    /\ issued >= 2
    /\ pending = {}
    /\ bannerCount = 1

---------------------------------------------------------------------------
(* Claims about the refresh that follows markNotificationAsRead *)

\* The 500 ms timer of call i fires in the step: the item is removed.
ItemRemoved(i) ==
    /\ i \in 1..Len(calls)
    /\ calls[i].timer
    /\ ~calls'[i].timer

\* C28: when markNotificationAsRead has received a success response and
\* removes the element of the notification, a notifications request is
\* issued, however recently the previous load took place.
C28_RemovalReloadsNotifications ==
    [][\A i \in 1..MaxCalls :
          ItemRemoved(i) => calls'[i].issued = calls[i].issued + 1]_vars

\* The removal never sends more than one request, and the element is gone
\* unless the list has been drawn again since the timer was armed.
C28_SideCheck ==
    [][\A i \in 1..MaxCalls :
          ItemRemoved(i) =>
              /\ ~calls[i].stale => ~notifItem'
              /\ calls'[i].issued \in {calls[i].issued, calls[i].issued + 1}]_vars

---------------------------------------------------------------------------
(* Form autosave: enableAutoSave, saveFormData, restoreFormData (supper.js) *)

\* The fields of the modelled form, in document order, and their types.
FieldNames == <<"username", "password">>
FieldType(name) == IF name = "password" THEN "password" ELSE "text"

\* What the user may type in a field, the empty value included.
TypedValues(name) ==
    IF FieldType(name) = "password" THEN {"", "p", "q"} ELSE {"", "a", "b"}

\* form.id: a form without id, or the form 'f'.
FormIds == {"", "f"}

\* localStorage holds no item 'supper_form_<id>'.
NoEntry == <<>>

\* A saveFormData that leaves the password fields out.
EntriesWithoutPasswords(values) ==
    [name \in {n \in DOMAIN values : FieldType(n) # "password"} |-> values[name]]

\* for (let [key, value] of new FormData(form).entries()) data[key] = value:
\* every named field, whatever its type.
FormDataEntries(values) == [name \in DOMAIN values |-> values[name]]

\* saveFormData(form): the item of the form in localStorage afterwards;
\* quota tells that setItem throws (the catch only warns).
SaveFormData(id, values, old, quota) ==
    IF id = "" \/ quota THEN old ELSE FormDataEntries(values)

\* saveFormData shows its toast
SaveToast(id, quota) == id # "" /\ ~quota

\* restoreFormData(form): the values of the fields afterwards
RestoreFormData(id, values, saved) ==
    IF id = "" \/ saved = NoEntry THEN values
    ELSE [name \in DOMAIN values |->
            IF name \in DOMAIN saved /\ FieldType(name) # "password"
            THEN saved[name] ELSE values[name]]

\* The form as the server renders it: every field empty.
Rendered == [i \in 1..Len(FieldNames) |-> ""]

\* The values of the fields, by name.
ByFieldName(vals) ==
    [name \in {FieldNames[i] : i \in 1..Len(FieldNames)} |->
        vals[CHOOSE i \in 1..Len(FieldNames) : FieldNames[i] = name]]

\* DOMContentLoaded on a browser that holds no saved item: enableAutoSave
\* binds the listeners and restoreFormData finds nothing.
SvInit ==
    /\ formId \in FormIds
    /\ fieldValues = Rendered
    /\ storage = NoEntry
    /\ saveTimeout = FALSE
    /\ svLast = [op |-> "init", wrote |-> FALSE]
    /\ DpIdle
    /\ PmIdle
    /\ DtIdle
    /\ RgIdle
    /\ StIdle
    /\ WaIdle
    /\ TnIdle
    /\ TwIdle
    /\ DrIdle

\* String.prototype.toUpperCase() on the values the user may type.
ToUpperCase(v) ==
    CASE v = "a" -> "A" [] v = "b" -> "B" [] v = "p" -> "P" [] v = "q" -> "Q"
      [] OTHER -> v

\* The 'input' listener enableFieldFormatting binds to input[name*="username"]
\* and input[name*="matricule"]: this.value = this.value.toUpperCase().
Formatted(name, v) == IF name = "username" THEN ToUpperCase(v) ELSE v

\* The 'input' listeners of a field: the one of enableAutoSave does
\* clearTimeout(saveTimeout) and arms a new timer of one second, the one of
\* enableFieldFormatting rewrites the value typed.
FieldInput(i, v) ==
    /\ i \in 1..Len(FieldNames)
    /\ v \in TypedValues(FieldNames[i])
    /\ v # fieldValues[i]
    /\ fieldValues' = [fieldValues EXCEPT ![i] = Formatted(FieldNames[i], v)]
    /\ saveTimeout' = TRUE
    /\ svLast' = [op |-> "input", wrote |-> FALSE]
    /\ UNCHANGED <<formId, storage>>
    /\ UNCHANGED notSv

\* The timer fires: saveFormData(form)
AutoSave(quota) ==
    /\ saveTimeout
    /\ saveTimeout' = FALSE
    /\ storage' = SaveFormData(formId, ByFieldName(fieldValues), storage, quota)
    /\ svLast' = [op |-> "save", wrote |-> SaveToast(formId, quota)]
    /\ UNCHANGED <<formId, fieldValues>>
    /\ UNCHANGED notSv

\* The page is loaded again: the form is rendered anew, the timer is gone,
\* and enableAutoSave calls restoreFormData.
ReloadPage ==
    /\ saveTimeout' = FALSE
    /\ fieldValues' =
          LET r == RestoreFormData(formId, ByFieldName(Rendered), storage)
          IN  [i \in 1..Len(FieldNames) |-> r[FieldNames[i]]]
    /\ svLast' = [op |-> "reload", wrote |-> FALSE]
    /\ UNCHANGED <<formId, storage>>
    /\ UNCHANGED notSv

SvNext ==
    \/ \E i \in 1..Len(FieldNames), v \in {"", "a", "b", "p", "q"} : FieldInput(i, v)
    \/ \E quota \in BOOLEAN : AutoSave(quota)
    \/ ReloadPage

\* The autosave of one form.
SpecAutoSave == SvInit /\ [][SvNext]_vars

---------------------------------------------------------------------------
(* Claims about the form autosave *)

\* The item saved does not depend on the passwords typed: the form with any
\* other values in its password fields gives the item stored.
SameForAnyPassword ==
    \A pw \in TypedValues("password") :
        storage = SaveFormData(formId,
                     [ByFieldName(fieldValues) EXCEPT !["password"] = pw],
                     storage, FALSE)

\* C29: the autosave never persists the value of a password field: two
\* states of the form that differ only in the values of password fields give
\* the same item 'supper_form_<form id>' in localStorage.
C29_PasswordNeverPersisted ==
    (svLast.op = "save" /\ svLast.wrote) => SameForAnyPassword

\* A restore never writes a saved value into a password field.
C29_SideCheck ==
    svLast.op = "reload" =>
        \A i \in 1..Len(FieldNames) :
            FieldType(FieldNames[i]) = "password" => fieldValues[i] = ""

---------------------------------------------------------------------------
(* Loss rate of a declared revenue: calculateDeperditionRate (supper.js) *)

\* The amounts the model declares: NumAmounts multiples of five, zero, and
\* amounts whose rate falls halfway between two hundredths in the reals and
\* is not a double (63 of 160: -60.625, computed -60.62499999999999).
NumAmounts == 24
OddAmounts == {63}
Amounts == {5 * i : i \in 0..NumAmounts} \cup OddAmounts

\* The potential revenues: missing (undefined or null), zero, and amounts
\* for which declared amounts fall on the limits -10 and -30 and off them.
Potentials == {Null, Num(0), Num(30), Num(50), Num(100), Num(160)}

\* !recettePotentielle || recettePotentielle === 0
NoPotential(p) == p.k = "null" \/ p.n = 0

\* A number of the program is a double. The model keeps its magnitude: bits,
\* the significand, Precision binary digits beginning with 1 (<<>> for
\* zero), and e, the power of two that multiplies the significand read as an
\* integer. The sign is kept apart.
Precision == 53

\* The widths of the long division: the integer part of the quotient on
\* IntegerBits binary digits, then FractionDigits digits of DigitBits binary
\* digits each. A remainder times 2^DigitBits has to be a machine integer
\* and the quotient needs Precision + 1 digits after its first 1 within the
\* width, which holds for every divisor below 2^23.
IntegerBits == 30
DigitBits == 8
FractionDigits == 10

\* The sequence of the first n values of f
Listed(f, n) == SubSeq(f, 1, n)

Zeros(n) == Listed([i \in 1..n |-> 0], n)

\* n on w binary digits, the most significant first
Bits(n, w) == Listed([i \in 1..w |-> (n \div 2^(w - i)) % 2], w)

\* The integer a sequence of at most 31 binary digits stands for
RECURSIVE FromBits(_)
FromBits(b) ==
    IF Len(b) = 0 THEN 0
    ELSE IF Len(b) = 1 THEN b[1]
    ELSE LET half == Len(b) \div 2
         IN  FromBits(SubSeq(b, 1, half)) * 2^(Len(b) - half)
                 + FromBits(SubSeq(b, half + 1, Len(b)))

\* The remainder of a * 2^(DigitBits * k) by b
RECURSIVE Remainder(_, _, _)
Remainder(a, b, k) ==
    IF k = 0 THEN a % b ELSE (2^DigitBits * Remainder(a, b, k - 1)) % b

\* The k-th digit of the fraction of a / b, in base 2^DigitBits
Digit(a, b, k) == (2^DigitBits * Remainder(a, b, k - 1)) \div b

\* The first k digits of the fraction of a / b, as binary digits
RECURSIVE Digits(_, _, _)
Digits(a, b, k) ==
    IF k = 0 THEN <<>>
    ELSE Digits(a, b, k - 1) \o Bits(Digit(a, b, k), DigitBits)

\* The place of the first 1 of a sequence of binary digits that has one
First(b) == CHOOSE i \in 1..Len(b) : b[i] = 1 /\ \A j \in 1..(i - 1) : b[j] = 0

\* b + 1, for b not all ones
Increment(b) ==
    LET z == CHOOSE i \in 1..Len(b) :
                 b[i] = 0 /\ \A j \in (i + 1)..Len(b) : b[j] = 1
    IN  Listed([i \in 1..Len(b) |->
                   IF i < z THEN b[i] ELSE IF i = z THEN 1 ELSE 0], Len(b))

\* The double nearest to b * 2^e (and a little more when sticky), the one
\* with the even significand of two equally near. b has more than Precision
\* digits after its first 1.
RoundNearestEven(b, sticky, e) ==
    LET first == First(b)
        kept  == SubSeq(b, first, first + Precision - 1)
        rest  == SubSeq(b, first + Precision, Len(b))
        more  == sticky \/ \E i \in 2..Len(rest) : rest[i] = 1
        up    == rest[1] = 1 /\ (more \/ kept[Precision] = 1)
        exp   == e + Len(rest)
    IN  IF ~up THEN [bits |-> kept, e |-> exp]
        ELSE IF \A i \in 1..Precision : kept[i] = 1
             THEN [bits |-> <<1>> \o Zeros(Precision - 1), e |-> exp + 1]
             ELSE [bits |-> Increment(kept), e |-> exp]

\* a / b, for integers a >= 0 and b > 0
Divide(a, b) ==
    IF a = 0 THEN [bits |-> <<>>, e |-> 0]
    ELSE RoundNearestEven(
             Bits(a \div b, IntegerBits) \o Digits(a, b, FractionDigits),
             Remainder(a, b, FractionDigits) # 0,
             -(DigitBits * FractionDigits))

\* x + y for two sequences of binary digits of one length, the sum fitting
\* in that length: a digit receives a carry when a place to its right makes
\* one and every place between passes it on.
Add(x, y) ==
    LET n == Len(x)
        carry(i) == \E j \in (i + 1)..n :
                        /\ x[j] + y[j] = 2
                        /\ \A k \in (i + 1)..(j - 1) : x[k] + y[k] = 1
    IN  Listed([i \in 1..n |->
                   (x[i] + y[i] + (IF carry(i) THEN 1 ELSE 0)) % 2], n)

\* 100 b = 64 b + 32 b + 4 b, exactly, on seven more digits
Times100(b) ==
    IF Len(b) = 0 THEN <<>>
    ELSE Add(Add(<<0>> \o b \o Zeros(6), <<0, 0>> \o b \o Zeros(5)),
             <<0, 0, 0, 0, 0>> \o b \o Zeros(2))

\* x * 100
Multiply100(x) ==
    IF Len(x.bits) = 0 THEN x
    ELSE RoundNearestEven(Times100(x.bits), FALSE, x.e)

\* Math.floor(x), for x below 2^31
IntegerPart(x) == FromBits(SubSeq(x.bits, 1, Len(x.bits) + x.e))

\* x is a whole number
IsInteger(x) ==
    \A i \in 1..Len(x.bits) : i > Len(x.bits) + x.e => x.bits[i] = 0

\* The fraction of x is one half or more
HalfOrMore(x) ==
    LET place == Len(x.bits) + x.e + 1
    IN  place >= 1 /\ place <= Len(x.bits) /\ x.bits[place] = 1

\* const taux = (ecart / recettePotentielle) * 100: the magnitude of taux,
\* whose sign is that of ecart
Taux(ecart, p) == Multiply100(Divide(IF ecart < 0 THEN -ecart ELSE ecart, p))

\* x.toFixed(2) for a magnitude x, in hundredths: the integer n for which
\* n / 100 - x is nearest to zero, the larger of two such n
ToFixed2(x) ==
    LET scaled == [bits |-> Times100(x.bits), e |-> x.e]
    IN  IntegerPart(scaled) + (IF HalfOrMore(scaled) THEN 1 ELSE 0)

\* taux > -limit and taux >= -limit, for taux of magnitude x, negative
\* when neg
Above(neg, x, limit) == ~neg \/ IntegerPart(x) < limit
AtLeast(neg, x, limit) ==
    \/ ~neg
    \/ IntegerPart(x) < limit
    \/ IntegerPart(x) = limit /\ IsInteger(x)

\* A classification whose green band includes the rate -10.
ClasseGreenAtLimit(ecart, p) ==
    IF AtLeast(ecart < 0, Taux(ecart, p), 10) THEN "deperdition-vert"
    ELSE IF AtLeast(ecart < 0, Taux(ecart, p), 30) THEN "deperdition-orange"
    ELSE "deperdition-rouge"

\* if (taux > -10) ... else if (taux >= -30) ... else ..., for
\* taux = (ecart / p) * 100 with p > 0
Classe(ecart, p) ==
    IF Above(ecart < 0, Taux(ecart, p), 10) THEN "deperdition-vert"
    ELSE IF AtLeast(ecart < 0, Taux(ecart, p), 30) THEN "deperdition-orange"
    ELSE "deperdition-rouge"

\* The Bootstrap colour that goes with a class.
Couleur(classe) ==
    CASE classe = "deperdition-vert"   -> "success"
      [] classe = "deperdition-orange" -> "warning"
      [] classe = "deperdition-rouge"  -> "danger"
      [] classe = "deperdition-gris"   -> "secondary"

\* calculateDeperditionRate(recetteDeclare, recettePotentielle): taux is in
\* hundredths; texte tells that it is the string of toFixed(2), not the
\* number 0, and moins that the string begins with "-" (as "-0.00" does).
CalculateDeperditionRate(declare, potentielle) ==
    IF NoPotential(potentielle)
    THEN [taux |-> 0, texte |-> FALSE, moins |-> FALSE,
          couleur |-> "secondary", classe |-> "deperdition-gris"]
    ELSE LET ecart == declare - potentielle.n
             classe == Classe(ecart, potentielle.n)
             cents == ToFixed2(Taux(ecart, potentielle.n))
         IN  [taux |-> IF ecart < 0 THEN -cents ELSE cents, texte |-> TRUE,
              moins |-> ecart < 0,
              couleur |-> Couleur(classe), classe |-> classe]

\* No call has been made yet.
NoResult ==
    [taux |-> 0, texte |-> FALSE, moins |-> FALSE, couleur |-> "none",
     classe |-> "none"]

\* The page: the potential revenue of the post, no amount typed yet.
DrInit ==
    /\ recettePotentielle \in Potentials
    /\ recetteDeclare = 0
    /\ deperdition = NoResult
    /\ DpIdle
    /\ PmIdle
    /\ DtIdle
    /\ RgIdle
    /\ StIdle
    /\ WaIdle
    /\ TnIdle
    /\ TwIdle
    /\ SvIdle

\* A call calculateDeperditionRate(declare, recettePotentielle)
Calculate(declare) ==
    /\ recetteDeclare' = declare
    /\ deperdition' = CalculateDeperditionRate(declare, recettePotentielle)
    /\ UNCHANGED recettePotentielle
    /\ UNCHANGED notDr

DrNext == \E declare \in Amounts : Calculate(declare)

\* The loss rate of the amounts declared for one post.
SpecDeperdition == DrInit /\ [][DrNext]_vars

---------------------------------------------------------------------------
(* Claims about the loss rate *)

\* The rate (declared - potential) / potential * 100 is above, at or below a
\* limit, for a potential above zero.
RateAbove(limit) ==
    (recetteDeclare - recettePotentielle.n) * 100 > limit * recettePotentielle.n
RateBelow(limit) ==
    (recetteDeclare - recettePotentielle.n) * 100 < limit * recettePotentielle.n

\* C30: calculateDeperditionRate(declared, potential) returns the grey class
\* with rate 0 when potential is missing or 0; otherwise, with
\* rate = (declared - potential) / potential * 100, it returns the green
\* class when rate > -10, the orange class when -30 <= rate <= -10 and the
\* red class when rate < -30.
C30_ClassOfRate ==
    deperdition # NoResult =>
        IF recettePotentielle = Null \/ recettePotentielle = Num(0)
        THEN deperdition.classe = "deperdition-gris" /\ deperdition.taux = 0
        ELSE /\ RateAbove(-10) => deperdition.classe = "deperdition-vert"
             /\ (~RateAbove(-10) /\ ~RateBelow(-30))
                    => deperdition.classe = "deperdition-orange"
             /\ RateBelow(-30) => deperdition.classe = "deperdition-rouge"

\* A call has returned the orange class for a rate of exactly -10.
C30_Witness ==
    /\ recettePotentielle = Num(100)
    /\ recetteDeclare = 90
    /\ deperdition.classe = "deperdition-orange"
    /\ deperdition.taux = -1000

=============================================================================
